---------------------------- MODULE Spec2Model ----------------------------
(***************************************************************************)
(* A model of the OSINT aggregation service: the orchestrator scrape_data  *)
(* of app/main.py, which fans one query out to five source adapters on one *)
(* asyncio event loop, and the adapters' cascades of app/scraper/*.py.     *)
(*                                                                         *)
(* Three specifications share the module.                                   *)
(*   Spec         the orchestrator: five adapter tasks on one event loop,  *)
(*                asyncio.gather(return_exceptions=True), the report.      *)
(*   SpecAdapter  one invocation of one adapter's search, statement by     *)
(*                statement, against a nondeterministic external source.   *)
(*   SpecMatch    the relevance matchers of the adapter steps, applied to  *)
(*                candidate texts one after the other.                     *)
(* The variables that a specification does not use keep their initial      *)
(* values.                                                                 *)
(***************************************************************************)
EXTENDS Integers, Sequences, FiniteSets, TLC

(***************************************************************************)
(* Bounds of the model.                                                    *)
(***************************************************************************)
\* the largest number of items an adapter task returns in Spec
MaxItems == 2
\* the largest limit a search is called with in SpecAdapter
MaxLimit == 2
\* the largest days_back a search is called with
MaxDaysBack == 2
\* the number of candidates of each pool that the model visits (subreddits,
\* accounts, channels, pages, feeds)
MaxPool == 2
\* the largest number of items one listing yields (praw listing, feed
\* entries, page elements)
MaxListing == 2
\* datetime.now(), in half days
Now == 7
\* the length of the longest text a source gives for one item
MaxContent == 1001
\* the length of the longest text a feed gives for one entry or one page
MaxArticle == 5004
\* the number of queries served at the same time
MaxQueries == 2
\* the number of channels and of pages the tasks of such queries visit
MaxVisited == 1

VARIABLES
    \* ---- orchestrator (app/main.py) ----
    opc,        \* position of scrape_data: "start", "gathering", "done"
    task,       \* task[a]: "new", "ready", "blocked", "awaiting", "returned", "raised"
    loopOwner,  \* the task that holds the event loop's thread, or None
    outcome,    \* outcome[a]: what a's search returned (a list) or Raised
    report,     \* the ScrapingResult: social_media_posts, news_articles, stats
    firstDone,  \* the adapter whose task finished first, or None
    \* ---- one adapter invocation (app/scraper/*.py) ----
    adapter,    \* the adapter whose search runs
    keywords,   \* the query's keywords, a list of strings
    limit,      \* the limit argument of search
    daysBack,   \* the days_back argument of search
    pc,         \* position in the adapter's code
    results,    \* the results list of search
    stepRes,    \* the results list local to the running cascade step
    quota,      \* the limit argument of the running cascade step
    ci,         \* index into the candidate pool (subreddit, account, channel, page, feed)
    vi,         \* index of the variant tried on the candidate (sort method, URL)
    si,         \* index of the selector tried on a page (facebook.py:188)
    ni,         \* items the current listing has yielded
    flag,       \* the success flag of the candidate loop (telegram.py:93, facebook.py:136)
    retry,      \* retry_count of telegram.py:92
    examined,   \* the last relevance match made: its input and its verdict
    calls,      \* how often each cascade step was invoked
    primaryYield, \* the number of items the primary step returned
    returned,   \* the list search returned
    obs,        \* what the invocation has been seen to do (a history of it)
    \* ---- the HTTP endpoints (app/main.py) ----
    world,      \* the external sources: the calls that are answered with an item
    served,     \* the requests served so far, each with its response
    \* ---- the making of one item (app/scraper/*.py) ----
    candidate,  \* what the source gave: the step that reads it, its title and text
    post,       \* the SocialMediaPost made of it, NoPost before, Skipped if none
    \* ---- the adapter tasks of concurrent queries ----
    tpc,        \* tpc[t]: where the task t = <<query, adapter>> is
    written     \* written[l]: the tasks that have written the location l

orchVars == <<opc, task, loopOwner, outcome, report, firstDone>>
inVars == <<adapter, keywords, limit, daysBack>>
idxVars == <<ci, vi, si, ni>>
adVars == <<adapter, keywords, limit, daysBack, pc, results, stepRes, quota,
            ci, vi, si, ni, flag, retry, examined, calls, primaryYield, returned,
            obs>>
reqVars == <<world, served>>
itemVars == <<candidate, post>>
sharedVars == <<tpc, written>>
\* what the orchestrator's steps leave alone
restVars == <<adVars, reqVars, itemVars, sharedVars>>
vars == <<orchVars, adVars, reqVars, itemVars, sharedVars>>

None == "None"
\* a result of gather: the list a search returned, or the exception it raised
Returned(items) == [exc |-> FALSE, items |-> items]
Raised == [exc |-> TRUE, items |-> <<>>]

(***************************************************************************)
(* app/main.py: the orchestrator.                                          *)
(***************************************************************************)
\* main.py:105, the names in task order (tasks list of main.py:97-103)
SourceNames == <<"Reddit", "Twitter", "Telegram", "Facebook", "RSS">>
Adapters == {SourceNames[i] : i \in DOMAIN SourceNames}

\* The external calls of each adapter's search are of two kinds.  An awaited
\* call (playwright, aiohttp, asyncio.sleep) suspends the task and frees the
\* event loop.  A synchronous call made inside the coroutine (praw, snscrape,
\* requests, feedparser.parse of a URL) keeps the loop's only thread until it
\* returns.
CallKinds(a) ==
    CASE a = "Reddit"   -> {"sync", "await"}   \* praw listing; asyncio.sleep
      [] a = "Twitter"  -> {"sync", "await"}   \* snscrape get_items; page.goto
      [] a = "Telegram" -> {"await"}           \* playwright only
      [] a = "Facebook" -> {"await", "sync"}   \* page.goto; requests.get
      [] a = "RSS"      -> {"sync", "await"}   \* feedparser.parse(url); session.get

\* what the content of an item reads like, whatever source it came from
Kinds == {"post", "article"}

\* The items adapter a returns in Spec: n items tagged with their adapter,
\* with content of kind k.
ItemsOf(a, n, k) == [i \in 1..n |-> [src |-> a, n |-> i, kind |-> k]]

\* (mutant) the social branch taken for the first three sources only
IsSocialFirstThree(i) == i <= 2

\* main.py:129, i <= 3: the index of a social media scraper
IsSocial(i) == i <= 3

\* (mutant) the news branch one index too far
IsNewsAfterRss(i) == i = 5

\* main.py:131, i == 4: the index of the RSS scraper
IsNews(i) == i = 4

\* ScrapingResult() of main.py:111 and stats = {} of main.py:112
EmptyReport == [social_media_posts |-> <<>>, news_articles |-> <<>>, stats |-> <<>>]

\* The event loop runs one task at a time: a task takes a step only when no
\* other task holds the thread.
CanStep(a) == task[a] = "ready" /\ loopOwner \in {None, a}

\* a task that has returned or raised
TaskFinished(a) == task[a] \in {"returned", "raised"}

\* (mutant) a wait that ends at the first completion, as
\* asyncio.wait(return_when=FIRST_COMPLETED) would
GatherFirstCompleted == \E a \in Adapters : task[a] \in {"returned", "raised"}

\* asyncio.gather(*tasks, return_exceptions=True), main.py:108: the await ends
\* when every task has returned or raised.
GatherComplete == \A a \in Adapters : task[a] \in {"returned", "raised"}

\* (mutant) results with the task that finished first in front, as a
\* collection in completion order would begin
GatherResultsFirstDoneFirst(first) ==
    LET order == <<first>> \o SelectSeq(SourceNames, LAMBDA s : s # first)
    IN [i \in DOMAIN SourceNames |-> outcome[order[i]]]

\* results = await asyncio.gather(*tasks, ...), main.py:108: the results in
\* the order of the tasks list, whichever task finished first
GatherResults(first) == [i \in DOMAIN SourceNames |-> outcome[SourceNames[i]]]

\* isinstance(result, Exception), main.py:116
IsException(result) == result.exc

\* (mutant) the loop without return_exceptions handling: the first exception
\* met ends the processing
RECURSIVE ProcessResultsStopOnError(_, _, _)
ProcessResultsStopOnError(i, gathered, rep) ==
    IF i >= Len(gathered) THEN rep
    ELSE LET source == SourceNames[i + 1]
             result == gathered[i + 1]
         IN IF IsException(result)
            THEN [rep EXCEPT !.stats = (source :> 0) @@ @]
            ELSE LET withStats == [rep EXCEPT !.stats = (source :> Len(result.items)) @@ @]
                 IN ProcessResultsStopOnError(i + 1, gathered,
                        IF IsSocial(i)
                        THEN [withStats EXCEPT !.social_media_posts = @ \o result.items]
                        ELSE IF IsNews(i)
                             THEN [withStats EXCEPT !.news_articles = @ \o result.items]
                             ELSE withStats)

\* (mutant) the loop with the failure branch skipping the source without
\* recording stats[source] = 0
RECURSIVE ProcessResultsNoFailStat(_, _, _)
ProcessResultsNoFailStat(i, gathered, rep) ==
    IF i >= Len(gathered) THEN rep
    ELSE LET source == SourceNames[i + 1]
             result == gathered[i + 1]
         IN IF IsException(result)
            THEN ProcessResultsNoFailStat(i + 1, gathered, rep)
            ELSE LET withStats == [rep EXCEPT !.stats = (source :> Len(result.items)) @@ @]
                 IN ProcessResultsNoFailStat(i + 1, gathered,
                        IF IsSocial(i)
                        THEN [withStats EXCEPT !.social_media_posts = @ \o result.items]
                        ELSE IF IsNews(i)
                             THEN [withStats EXCEPT !.news_articles = @ \o result.items]
                             ELSE withStats)

\* The for loop of main.py:114-132 from index i (0-based, as enumerate gives).
RECURSIVE ProcessResults(_, _, _)
ProcessResults(i, gathered, rep) ==
    IF i >= Len(gathered) THEN rep
    ELSE LET source == SourceNames[i + 1]
             result == gathered[i + 1]
         IN IF IsException(result)
            THEN ProcessResults(i + 1, gathered,
                     [rep EXCEPT !.stats = (source :> 0) @@ @])
            ELSE LET withStats == [rep EXCEPT !.stats = (source :> Len(result.items)) @@ @]
                 IN ProcessResults(i + 1, gathered,
                        IF IsSocial(i)
                        THEN [withStats EXCEPT !.social_media_posts = @ \o result.items]
                        ELSE IF IsNews(i)
                             THEN [withStats EXCEPT !.news_articles = @ \o result.items]
                             ELSE withStats)

\* scrape_data up to the await of main.py:108: the five coroutines are made
\* and gather schedules each as a task.
StartGather ==
    /\ opc = "start"
    /\ opc' = "gathering"
    /\ task' = [a \in Adapters |-> "ready"]
    /\ UNCHANGED <<restVars, loopOwner, outcome, report, firstDone>>

\* A task makes a synchronous external call: the thread stays with it.
TaskBeginSync(a) ==
    /\ opc = "gathering"
    /\ CanStep(a)
    /\ "sync" \in CallKinds(a)
    /\ task' = [task EXCEPT ![a] = "blocked"]
    /\ loopOwner' = a
    /\ UNCHANGED <<restVars, opc, outcome, report, firstDone>>

\* The synchronous call returns; the task runs on without yielding.
TaskEndSync(a) ==
    /\ task[a] = "blocked"
    /\ task' = [task EXCEPT ![a] = "ready"]
    /\ UNCHANGED <<restVars, opc, loopOwner, outcome, report, firstDone>>

\* A task awaits an external call: it is suspended and the loop is free.
TaskBeginAwait(a) ==
    /\ opc = "gathering"
    /\ CanStep(a)
    /\ "await" \in CallKinds(a)
    /\ task' = [task EXCEPT ![a] = "awaiting"]
    /\ loopOwner' = None
    /\ UNCHANGED <<restVars, opc, outcome, report, firstDone>>

\* The awaited call completes: the task is runnable again.
TaskEndAwait(a) ==
    /\ task[a] = "awaiting"
    /\ task' = [task EXCEPT ![a] = "ready"]
    /\ UNCHANGED <<restVars, opc, loopOwner, outcome, report, firstDone>>

\* The adapter's search returns its list.
TaskReturn(a) ==
    /\ opc = "gathering"
    /\ CanStep(a)
    /\ \E n \in 0..MaxItems, k \in Kinds :
         outcome' = [outcome EXCEPT ![a] = Returned(ItemsOf(a, n, k))]
    /\ task' = [task EXCEPT ![a] = "returned"]
    /\ loopOwner' = None
    /\ firstDone' = IF firstDone = None THEN a ELSE firstDone
    /\ UNCHANGED <<restVars, opc, report>>

\* The adapter's search raises; gather keeps the exception as its result.
TaskRaise(a) ==
    /\ opc = "gathering"
    /\ CanStep(a)
    /\ outcome' = [outcome EXCEPT ![a] = Raised]
    /\ task' = [task EXCEPT ![a] = "raised"]
    /\ loopOwner' = None
    /\ firstDone' = IF firstDone = None THEN a ELSE firstDone
    /\ UNCHANGED <<restVars, opc, report>>

\* main.py:108-141: gather's await ends, the results are processed in task
\* order and the report is returned.
FinishScrape ==
    /\ opc = "gathering"
    /\ loopOwner = None
    /\ GatherComplete
    /\ report' = ProcessResults(0, GatherResults(firstDone), EmptyReport)
    /\ opc' = "done"
    /\ UNCHANGED <<restVars, task, loopOwner, outcome, firstDone>>


(***************************************************************************)
(* app/main.py: the endpoints GET /api/data and POST /api/search.  A       *)
(* request is served in one piece: scrape_data is called, the five         *)
(* searches run against the external sources and the response is made.     *)
(* Each search is taken here by what it reads (the arguments it is given,  *)
(* the clock, the shuffle of its pool) and by what it makes of the answer  *)
(* of its source; its steps are followed one by one in SpecAdapter.        *)
(***************************************************************************)
\* the number of requests served one after the other
MaxRequests == 2

\* main.py:149
default_keywords == <<"osint", "intelligence", "security">>
\* values of SearchRequest.location (main.py:23) and of AssetClass
\* (main.py:11-18)
Locations == {None, "paris"}
AssetClasses == {None, "person"}

\* GET /api/data (main.py:145-158): the default keywords, no location
GetRequests ==
    [endpoint : {"GET"}, keywords : {default_keywords}, location : {None},
     asset_class : {None}, days_back : {1}, limit_per_source : {MaxLimit}]
\* POST /api/search with a SearchRequest (main.py:21-26, 166)
PostRequests ==
    [endpoint : {"POST"}, keywords : {default_keywords}, location : Locations,
     asset_class : AssetClasses, days_back : {1}, limit_per_source : {MaxLimit}]

\* What a request meets besides the sources: the clock (datetime.now(), in
\* half days), the sample random.sample draws (reddit.py:157), and what
\* fails: nothing, the search of one adapter, or the making of the report.
Faults == {"none", "Reddit", "RSS", "construct"}
Envs == [now : {Now, Now + 1}, shuffle : 1..2, fault : Faults]

\* main.py:154-158 and 173-178: the arguments scrape_data is called with
ScrapeArgs(request) ==
    [keywords |-> request.keywords, location |-> request.location,
     days_back |-> request.days_back,
     limit_per_source |-> request.limit_per_source]

\* (mutant) the location handed to every step of every adapter
LocationSeenByAll(a, step, location) == location

\* main.py:97-103, reddit.py:45-68, twitter.py:69, 78, 96-97: the location
\* that a step of adapter a puts into its call to the source.  Only
\* _search_with_snscrape reads it; RedditScraper.search takes it and drops
\* it, the fallback of Twitter is called without it, the other searches are
\* not given it.
LocationSeenBy(a, step, location) ==
    IF a = "Twitter" /\ step = "primary" THEN location ELSE None

\* reddit.py:153-157: only Reddit draws a sample of its pool
ShuffleSeenBy(a, step, shuffle) ==
    IF a = "Reddit" /\ step = "primary" THEN shuffle ELSE 0

\* the call a step of adapter a makes to its source
CallOf(a, step, args, env) ==
    <<a, step, ShuffleSeenBy(a, step, env.shuffle),
      LocationSeenBy(a, step, args.location)>>

\* the calls that the sources may answer with an item
WorldKeys ==
    { <<"Reddit", "primary", 1, None>>, <<"Reddit", "primary", 2, None>>,
      <<"Twitter", "primary", 0, None>>, <<"Twitter", "primary", 0, "paris">>,
      <<"Twitter", "fallback", 0, None>>,
      <<"Telegram", "primary", 0, None>>,
      <<"Facebook", "primary", 0, None>>,
      <<"RSS", "primary", 0, None>> }
Worlds == SUBSET WorldKeys
NoWorld == {}

\* the instant the items of the sources were published: a day before Now
PublishedAt == Now - 2

\* reddit.py:151 and 177, reddit.py:224 and 233: Reddit drops the posts
\* older than datetime.now() - timedelta(days=days_back)
PassesCutoff(a, ts, args, env) ==
    a = "Reddit" => ts >= env.now - 2 * args.days_back

\* The timestamp of the item made: the source's own (reddit.py:113,
\* twitter.py:131, telegram.py:243, rss.py:104) or datetime.now()
\* (facebook.py:227, twitter.py:260).
StampOf(a, step, ts, env) ==
    IF (a = "Facebook" /\ step = "primary") \/ (a = "Twitter" /\ step = "fallback")
    THEN env.now
    ELSE ts

\* the items a step of adapter a makes of the answer to its call
StepItems(a, step, args, env, w) ==
    LET call == CallOf(a, step, args, env)
    IN IF call \in w /\ PassesCutoff(a, PublishedAt, args, env)
       THEN << [source |-> a, id |-> call,
                timestamp |-> StampOf(a, step, PublishedAt, env)] >>
       ELSE <<>>

\* reddit.py:63, twitter.py:70, facebook.py:87: whether the fallback of
\* adapter a is run after a primary step that gave n items
RunsFallback(a, n, lim) ==
    CASE a = "Reddit"   -> 2 * n < lim
      [] a = "Twitter"  -> n = 0
      [] a = "Facebook" -> n < lim
      [] OTHER          -> FALSE

\* what the search of adapter a returns
SearchOf(a, args, env, w) ==
    LET first == StepItems(a, "primary", args, env, w)
    IN IF RunsFallback(a, Len(first), args.limit_per_source)
       THEN first \o StepItems(a, "fallback", args, env, w)
       ELSE first

\* main.py:108: the results of gather, in task order; a search that raised
\* is there as its exception
Gathered(args, env, w) ==
    [i \in DOMAIN SourceNames |->
        IF env.fault = SourceNames[i] THEN Raised
        ELSE Returned(SearchOf(SourceNames[i], args, env, w))]

\* (mutant) gather without return_exceptions: the exception of a search
\* leaves scrape_data
ScrapeRaisesOnAdapterError(gathered, constructFails) ==
    constructFails \/ \E i \in DOMAIN gathered : IsException(gathered[i])

\* main.py:108-141: whether scrape_data raises.  The exceptions of the
\* searches are results (return_exceptions=True); what is left is a failure
\* of the making of the report itself.
ScrapeRaises(gathered, constructFails) == constructFails

\* (mutant) a filter on the asset class that drops the posts
FilteredByAssetClass(result, asset_class) ==
    IF asset_class # None THEN [result EXCEPT !.social_media_posts = <<>>]
    ELSE result

\* main.py:180-186: the asset class is logged and the result returned as
\* it is
AfterAssetClass(result, asset_class) == result

\* main.py:153-162 and 172-189: the response to a request
ResponseTo(request, env, w) ==
    LET gathered == Gathered(ScrapeArgs(request), env, w)
    IN IF ScrapeRaises(gathered, env.fault = "construct")
       THEN [status |-> 500, body |-> EmptyReport]
       ELSE [status |-> 200,
             body |-> IF request.endpoint = "POST"
                      THEN AfterAssetClass(
                               ProcessResults(0, gathered, EmptyReport),
                               request.asset_class)
                      ELSE ProcessResults(0, gathered, EmptyReport)]

\* the clock does not go back between two requests
ClockGoesOn(env) ==
    IF served = <<>> THEN TRUE ELSE served[Len(served)].env.now <= env.now

\* the record of a request served
Exchange(request, env) ==
    [request |-> request, env |-> env,
     response |-> ResponseTo(request, env, world)]

\* GET /api/data, main.py:144-162
get_all_data ==
    /\ Len(served) < MaxRequests
    /\ \E request \in GetRequests, env \in Envs :
         /\ ClockGoesOn(env)
         /\ served' = Append(served, Exchange(request, env))
    /\ UNCHANGED <<orchVars, adVars, itemVars, sharedVars, world>>

\* POST /api/search, main.py:165-189
search_with_fields ==
    /\ Len(served) < MaxRequests
    /\ \E request \in PostRequests, env \in Envs :
         /\ ClockGoesOn(env)
         /\ served' = Append(served, Exchange(request, env))
    /\ UNCHANGED <<orchVars, adVars, itemVars, sharedVars, world>>
(***************************************************************************)
(* POST /api/search with the fields that SearchRequest lets be null.       *)
(* days_back and limit_per_source are Optional[int] (main.py:25-26); a     *)
(* null is handed on to scrape_data and to the five searches as None       *)
(* (main.py:173-178, 97-103), where the first comparison or timedelta that *)
(* meets it raises TypeError.                                              *)
(***************************************************************************)
\* None in a field of type Optional[int]; no search ever computes with it
NoneInt == 0 - 1

\* SearchRequest bodies with days_back and limit_per_source given or null
NullableRequests ==
    [endpoint : {"POST"}, keywords : {default_keywords}, location : Locations,
     asset_class : {None}, days_back : {1, NoneInt},
     limit_per_source : {MaxLimit, NoneInt}]

\* what such a request meets: the clock, the sample of Reddit's pool and
\* whether praw.Reddit can be made (reddit.py:71-84)
NullableEnvs ==
    [now : {Now, Now + 1}, shuffle : 1..2, fault : {"none"}, instance : BOOLEAN]

\* (mutant) searches that take None for no bound and go on as ever
NoneIgnored(a, limitNone, daysNone, instance, normal) == normal

\* What the search of adapter a comes to when limit or days_back is None.
\* Reddit: timedelta(days=None) at reddit.py:151 and 0 >= None at
\*   reddit.py:160 are outside every try and raise; without an instance both
\*   steps return [] before them (reddit.py:146-148, 220-221), and then only
\*   limit * 0.5 at reddit.py:63 raises.
\* Twitter: the TypeError of the first step (twitter.py:100, 111) is caught
\*   at twitter.py:74, that of the second (twitter.py:153, 166) at
\*   twitter.py:80 or 281: [].
\* Telegram: timedelta at telegram.py:57 stands before the try and raises;
\*   len(results) >= None at telegram.py:82 is caught at telegram.py:300: [].
\* Facebook: timedelta at facebook.py:77 and len(results) < None at
\*   facebook.py:87 stand in search, outside every try, and raise.
\* RSS: search takes no days_back (main.py:102); len(results) >= None at
\*   rss.py:88 is caught for each feed at rss.py:127: [].
NoneResult(a, limitNone, daysNone, instance, normal) ==
    CASE a = "Reddit" ->
             IF limitNone \/ (daysNone /\ instance) THEN Raised
             ELSE IF daysNone \/ ~instance THEN Returned(<<>>)
             ELSE normal
      [] a = "Twitter" ->
             IF limitNone \/ daysNone THEN Returned(<<>>) ELSE normal
      [] a = "Telegram" ->
             IF daysNone THEN Raised
             ELSE IF limitNone THEN Returned(<<>>)
             ELSE normal
      [] a = "Facebook" ->
             IF limitNone \/ daysNone THEN Raised ELSE normal
      [] OTHER ->
             IF limitNone THEN Returned(<<>>) ELSE normal

\* main.py:108: the results of gather for a request whose fields may be
\* null
GatheredNullable(args, env, w) ==
    [i \in DOMAIN SourceNames |->
        NoneResult(SourceNames[i], args.limit_per_source = NoneInt,
                   args.days_back = NoneInt, env.instance,
                   Returned(SearchOf(SourceNames[i], args, env, w)))]

\* main.py:172-189: the response to such a request
ResponseToNullable(request, env, w) ==
    LET gathered == GatheredNullable(ScrapeArgs(request), env, w)
    IN IF ScrapeRaises(gathered, FALSE)
       THEN [status |-> 500, body |-> EmptyReport]
       ELSE [status |-> 200,
             body |-> AfterAssetClass(ProcessResults(0, gathered, EmptyReport),
                                      request.asset_class)]

\* POST /api/search, main.py:165-189, with a body whose days_back and
\* limit_per_source may be null
search_with_nullable_fields ==
    /\ Len(served) < MaxRequests
    /\ \E request \in NullableRequests, env \in NullableEnvs :
         /\ ClockGoesOn(env)
         /\ served' = Append(served,
                [request |-> request, env |-> env,
                 response |-> ResponseToNullable(request, env, world)])
    /\ UNCHANGED <<orchVars, adVars, itemVars, sharedVars, world>>

(***************************************************************************)
(* app/scraper/*.py: what the adapters share.  Strings are sequences of    *)
(* one-character strings, so that lower() and the substring test `in` are  *)
(* computed and not assumed.                                               *)
(***************************************************************************)
Uppers == <<"A", "B", "C", "D", "E", "F", "G", "H", "I", "J", "K", "L", "M",
            "N", "O", "P", "Q", "R", "S", "T", "U", "V", "W", "X", "Y", "Z">>
Lowers == <<"a", "b", "c", "d", "e", "f", "g", "h", "i", "j", "k", "l", "m",
            "n", "o", "p", "q", "r", "s", "t", "u", "v", "w", "x", "y", "z">>

\* str.lower() on one character
LowerChar(c) ==
    IF \E i \in DOMAIN Uppers : Uppers[i] = c
    THEN Lowers[CHOOSE i \in DOMAIN Uppers : Uppers[i] = c]
    ELSE c

\* str.lower()
Lower(s) == [i \in DOMAIN s |-> LowerChar(s[i])]

\* Python's `k in s` on strings
IsSubstr(k, s) ==
    \E i \in 0..(Len(s) - Len(k)) : \A j \in 1..Len(k) : s[i + j] = k[j]

\* BeautifulSoup(content, 'html.parser').get_text() (facebook.py:302-303):
\* the text outside the tags
RECURSIVE StripTagsFrom(_, _)
StripTagsFrom(s, inTag) ==
    IF s = <<>> THEN <<>>
    ELSE LET h == Head(s)
         IN IF h = "<" THEN StripTagsFrom(Tail(s), TRUE)
            ELSE IF inTag THEN StripTagsFrom(Tail(s), h # ">")
            ELSE <<h>> \o StripTagsFrom(Tail(s), FALSE)
StripTags(s) == StripTagsFrom(s, FALSE)

\* any(term in s for term in terms)
AnyIn(terms, s) == \E i \in DOMAIN terms : IsSubstr(terms[i], s)

\* (mutant) the keywords used as given, without lower()
KeywordsNotLowered(kws) == kws

\* keywords_lower = [keyword.lower() for keyword in keywords]
\* (reddit.py:142, twitter.py:152, telegram.py:50, facebook.py:64)
KeywordsLower(kws) == [i \in DOMAIN kws |-> Lower(kws[i])]

\* facebook.py:203, content shorter than this is skipped
MinContentLen == 20

\* a text made long enough to pass the length test of facebook.py:203
Pad(t) == t \o [i \in 1..MinContentLen |-> "."]

\* broader_terms of facebook.py:67-69 (two of its entries: "hack", "data")
broader_terms == << <<"h", "a", "c", "k">>, <<"d", "a", "t", "a">> >>
\* tech_terms of facebook.py:72-74 (two of its entries: "web", "data")
tech_terms == << <<"w", "e", "b">>, <<"d", "a", "t", "a">> >>
\* broader_keywords of telegram.py:53-54 (two of its entries: "hack", "data")
broader_keywords == << <<"h", "a", "c", "k">>, <<"d", "a", "t", "a">> >>

\* The external sources.  Texts that candidates carry: a short text with a
\* keyword, long texts with a keyword in another case, with a domain term
\* only, with a broad term only, with no term, and the empty text.
Texts ==
    { <<"v", "p", "n">>,
      Pad(<<"V", "P", "N">>),
      Pad(<<"H", "a", "c", "k">>),
      Pad(<<"W", "e", "b">>),
      Pad(<<"c", "a", "t">>),
      <<>> }
\* a text whose keyword is split by markup, and one whose markup alone
\* holds the keyword
TaggedTexts ==
    { Pad(<<"v", "<", "b", ">", "p", "n">>),
      Pad(<<"<", "v", "p", "n", ">", "c", "a", "t">>) }
\* titles that posts and feed entries carry
Titles == { <<>>, <<"V", "p", "n">> }
\* the keyword lists of the queries
QueryKeywords == { << <<"V", "p", "n">> >>, << <<"t", "o", "r">>, <<"v", "p", "n">> >> }

\* Time is counted in half days, so that a calendar date (strftime
\* "%Y-%m-%d", twitter.py:100) is coarser than an instant.
Timestamps == {Now, Now - 3, Now - 6}
\* datetime.now() - timedelta(days=days_back)
Cutoff == Now - 2 * daysBack
\* the calendar day of an instant
DayOf(t) == t \div 2

\* a post, message, tweet or feed entry the external source yields
Candidates == [title : Titles, text : Texts, ts : Timestamps]
\* the candidates of sources whose items have a text only
TextCandidates == {c \in Candidates : c.title = <<>>}
\* the candidates a matcher is tried on alone
MatchCandidates == [title : Titles, text : Texts \cup TaggedTexts, ts : {Now}]

\* the SocialMediaPost or NewsArticle made of candidate c by cascade step s
Item(c, s) == [text |-> c.text, ts |-> c.ts, step |-> s]
\* the same with timestamp=datetime.now().isoformat()
ItemNow(c, s) == [text |-> c.text, ts |-> Now, step |-> s]

\* the record of one relevance match: the texts it was given, the number of
\* items the invocation had accepted before it and whether the candidate
\* passed
Exam(c, prior, passed) ==
    [seen |-> TRUE, title |-> c.title, text |-> c.text, prior |-> prior,
     passed |-> passed]
NoExam ==
    [seen |-> FALSE, title |-> <<>>, text |-> <<>>, prior |-> 0, passed |-> FALSE]


\* (mutant) a search whose Reddit client is made outside any try
AbsorbsAllButReddit(a) == a # "Reddit"

\* Whether the search of adapter a has its external operations inside a try
\* whose handler logs the exception and goes on: reddit.py:82, :193, :197,
\* :244; twitter.py:74, :80, :281; telegram.py:300; facebook.py:257, :349;
\* rss.py:134.
Absorbs(a) == a \in {"Reddit", "Twitter", "Telegram", "Facebook", "RSS"}

\* where search is after a failure that its handler would take to p: at p
\* when the handler is there, out of search with the exception otherwise
OnFailure(p) == IF Absorbs(adapter) THEN p ELSE "raised"

\* the list the running step fills and the quota it was given (Telegram and
\* RSS have one step, which fills the results list of search up to limit)
StepList == IF adapter \in {"Telegram", "RSS"} THEN results ELSE stepRes
StepQuota == IF adapter \in {"Telegram", "RSS"} THEN limit ELSE quota

\* nothing seen yet of an invocation: primaryFailed, the primary step
\* failed; lateCall, a call to the external source (a feed fetch or parse, a
\* page navigation, a pull from an API listing) was made with the running
\* step's quota already collected; attempts and pauses, the navigation
\* attempts made for the current channel and the pauses that followed them;
\* lost, the items a step had collected when it raised; combos, the pairs
\* of URL variant and selector that gave an item of the current page;
\* privates, the channels on whose page a private indicator was found
NoObs == [primaryFailed |-> FALSE, lateCall |-> FALSE, attempts |-> 0,
          pauses |-> 0, clientMade |-> FALSE, held |-> FALSE,
          seenHere |-> {}, seenNow |-> {}, repeated |-> FALSE,
          lost |-> 0, combos |-> {}, privates |-> {}]

\* The history of the posts taken from one candidate of the pool: seenHere,
\* the posts taken from its listings that are over; seenNow, those taken
\* from the listing being read; repeated, whether a post was taken that had
\* been taken from an earlier listing of the same candidate.
NextCandidate(o) == [o EXCEPT !.seenHere = {}, !.seenNow = {}]
NextListing(o) == [o EXCEPT !.seenHere = @ \cup o.seenNow, !.seenNow = {}]
Taken(o, c, taken) ==
    IF taken
    THEN [o EXCEPT !.seenNow = @ \cup {c}, !.repeated = @ \/ c \in o.seenHere]
    ELSE o

\* the history after an attempt to make a client (an API instance, a
\* browser, an HTTP session): clientMade says that one attempt succeeded
Made(o, ok) == [o EXCEPT !.clientMade = @ \/ ok]

\* (mutant) a block that leaves what it holds as it is
ScopeExitKeeps(h) == h

\* Whether the transient resource (the browser, the HTTP session) is still
\* held once control has left the block "async with async_playwright() as
\* p:" (twitter.py:158, telegram.py:60, facebook.py:105) or "async with
\* aiohttp.ClientSession() as session:" (rss.py:77): the exit of the block
\* stops the driver or closes the session, on a return and on an exception
ScopeExit(h) == FALSE

\* the history after the setup inside the block: the resource is held when
\* the setup went through; when it failed, with the resource already
\* acquired (got) or not, control leaves the block
Acquire(o, ok, got) ==
    [Made(o, ok) EXCEPT !.held = IF ok THEN TRUE ELSE ScopeExit(got)]

\* the history after browser.close() and the exit of the block
Release(o, closed) ==
    [o EXCEPT !.held = IF closed THEN FALSE ELSE ScopeExit(@)]

\* the history after a call to the external source
Called(o) == [o EXCEPT !.lateCall = @ \/ Len(StepList) >= StepQuota]
(***************************************************************************)
(* app/scraper/reddit.py                                                   *)
(***************************************************************************)
\* reddit.py:169, [subreddit.new, subreddit.hot, subreddit.rising]
NumSortMethods == 3

\* reddit.py:185
RedditMatch(title_lower, selftext_lower, keywords_lower) ==
    \E i \in DOMAIN keywords_lower :
        \/ IsSubstr(keywords_lower[i], title_lower)
        \/ IsSubstr(keywords_lower[i], selftext_lower)

\* reddit.py:181-185: whether post c passes the keyword test
RedditPasses(c, kws) ==
    RedditMatch(Lower(c.title), Lower(c.text), KeywordsLower(kws))

\* (mutant) the fallback tried whenever the limit is not reached
RedditNeedsFallbackBelowLimit(n, lim) == n < lim

\* (mutant) a fallback that also runs at exactly half the limit
RedditFallbackUpToHalf(n, lim) == 2 * n <= lim

\* reddit.py:63, len(results) < limit * 0.5
RedditNeedsFallback(n, lim) == 2 * n < lim

\* reddit.py:65, limit - len(results)
RedditFallbackQuota(n, lim) == lim - n

\* (mutant) a step that goes on without looking at the instance
RedditStepIgnoresInstance(reddit, step, out) == step

\* reddit.py:145-148 and 219-221: a step goes on when it has an instance
\* and returns its empty list when _get_reddit_instance gave None
RedditStepAfterInstance(reddit, step, out) == IF reddit THEN step ELSE out

\* (mutant) a search that looks at its results again after the second step
RedditLooksAgain(decision) == decision

\* reddit.py:65-68: after _search_top_posts search extends its results and
\* returns; it does not come back to the test of line 63 (decision)
RedditAfterFallback(decision) == "done"

\* reddit.py:59-60 and 140-148: search calls _search_subreddits, which makes
\* the client (None when praw.Reddit raises)
RedditSearch ==
    /\ adapter = "Reddit" /\ pc = "start"
    /\ calls' = [calls EXCEPT !.primary = @ + 1]
    /\ quota' = limit
    /\ stepRes' = <<>>
    /\ ci' = 0 /\ vi' = 0 /\ ni' = 0
    /\ \E instance \in BOOLEAN :
         /\ pc' = RedditStepAfterInstance(instance, "r_subreddit",
                                          OnFailure("r_primary_done"))
         /\ obs' = Made([obs EXCEPT !.primaryFailed = ~instance], instance)
    /\ UNCHANGED <<orchVars, reqVars, itemVars, sharedVars, inVars, results, si, flag, retry, examined,
                   primaryYield, returned>>

\* reddit.py:159-166: the head of the subreddit loop
RedditSubreddit ==
    /\ adapter = "Reddit" /\ pc = "r_subreddit"
    /\ IF ci >= MaxPool \/ Len(stepRes) >= quota
       THEN pc' = "r_primary_done"
       ELSE pc' = "r_sort"
    /\ vi' = 0 /\ ni' = 0
    /\ obs' = NextCandidate(obs)
    /\ UNCHANGED <<orchVars, reqVars, itemVars, sharedVars, inVars, results, stepRes, quota, ci, si, flag, retry,
                   examined, calls, primaryYield, returned>>

\* reddit.py:169-175 and 203-204: the head of the sort-method loop; after
\* the last method, the sleep and the next subreddit
RedditSortMethod ==
    /\ adapter = "Reddit" /\ pc = "r_sort"
    /\ IF vi >= NumSortMethods \/ Len(stepRes) >= quota
       THEN pc' = "r_subreddit" /\ ci' = ci + 1 /\ vi' = 0
       ELSE pc' = "r_post" /\ ci' = ci /\ vi' = vi
    /\ ni' = 0
    /\ obs' = NextListing(obs)
    /\ UNCHANGED <<orchVars, reqVars, itemVars, sharedVars, inVars, results, stepRes, quota, si, flag, retry,
                   examined, calls, primaryYield, returned>>

\* reddit.py:175-201: one turn of the post loop
RedditPost ==
    /\ adapter = "Reddit" /\ pc = "r_post"
    /\ UNCHANGED <<orchVars, reqVars, itemVars, sharedVars, inVars, results, quota, si, flag, retry, examined,
                   calls, primaryYield, returned>>
    /\ \/ \* a post older than the cutoff: continue (:177-178)
          /\ ni < MaxListing
          /\ \E c \in Candidates : c.ts < Cutoff
          /\ ni' = ni + 1
          /\ obs' = Called(obs)
          /\ UNCHANGED <<pc, stepRes, ci, vi>>
       \/ \* a recent post: matched, converted, appended (:181-192);
          \* _create_social_media_post gives None when it fails (:131-133)
          /\ ni < MaxListing
          /\ \E c \in Candidates, created \in BOOLEAN :
               /\ c.ts >= Cutoff
               /\ LET acc == RedditPasses(c, keywords) /\ created
                      res == IF acc THEN Append(stepRes, Item(c, "primary"))
                             ELSE stepRes
                  IN /\ stepRes' = res
                     /\ obs' = Taken(Called(obs), c, acc)
                     /\ IF acc /\ Len(res) >= quota
                        THEN pc' = "r_sort" /\ vi' = vi + 1 /\ ni' = 0
                        ELSE pc' = pc /\ vi' = vi /\ ni' = ni + 1
          /\ UNCHANGED ci
       \/ \* the listing ends, or raises a prawcore error caught at :193
          /\ pc' = "r_sort" /\ vi' = vi + 1 /\ ni' = 0
          /\ obs' = Called(obs)
          /\ UNCHANGED <<stepRes, ci>>
       \/ \* another exception, caught at :197: sleep, next subreddit
          /\ pc' = "r_subreddit" /\ ci' = ci + 1 /\ vi' = 0 /\ ni' = 0
          /\ obs' = Called(obs)
          /\ UNCHANGED stepRes

\* reddit.py:60-68 and 214-221: _search_subreddits returns; the fallback is
\* called when the subreddits gave less than half the limit
RedditPrimaryDone ==
    /\ adapter = "Reddit" /\ pc = "r_primary_done"
    /\ results' = stepRes
    /\ primaryYield' = Len(stepRes)
    /\ ci' = 0 /\ vi' = 0 /\ ni' = 0
    /\ IF RedditNeedsFallback(Len(stepRes), limit)
       THEN /\ calls' = [calls EXCEPT !.fallback = @ + 1]
            /\ quota' = RedditFallbackQuota(Len(stepRes), limit)
            /\ stepRes' = <<>>
            /\ \E instance \in BOOLEAN :
                 /\ pc' = RedditStepAfterInstance(instance, "r_top",
                                              OnFailure("r_fallback_done"))
                 /\ obs' = Made(obs, instance)
            /\ UNCHANGED returned
       ELSE /\ pc' = "done"
            /\ returned' = stepRes
            /\ stepRes' = <<>>
            /\ UNCHANGED <<calls, quota, obs>>
    /\ UNCHANGED <<orchVars, reqVars, itemVars, sharedVars, inVars, si, flag, retry, examined>>

\* reddit.py:231-245: one turn of the loop over the search of r/all
RedditTopPost ==
    /\ adapter = "Reddit" /\ pc = "r_top"
    /\ obs' = Called(obs)
    /\ UNCHANGED <<orchVars, reqVars, itemVars, sharedVars, inVars, results, quota, ci, vi, si, flag, retry,
                   examined, calls, primaryYield, returned>>
    /\ \/ \* a post older than the cutoff: continue (:233-234)
          /\ ni < MaxListing
          /\ \E c \in Candidates : c.ts < Cutoff
          /\ ni' = ni + 1
          /\ UNCHANGED <<pc, stepRes>>
       \/ \* a recent post: converted and appended (:236-242)
          /\ ni < MaxListing
          /\ \E c \in Candidates, created \in BOOLEAN :
               /\ c.ts >= Cutoff
               /\ LET res == IF created THEN Append(stepRes, Item(c, "fallback"))
                             ELSE stepRes
                  IN /\ stepRes' = res
                     /\ IF created /\ Len(res) >= quota
                        THEN pc' = "r_fallback_done" /\ ni' = 0
                        ELSE pc' = pc /\ ni' = ni + 1
       \/ \* the search ends, or raises (caught at :244)
          /\ pc' = "r_fallback_done" /\ ni' = 0
          /\ UNCHANGED stepRes

\* reddit.py:65-68: results.extend(top_results); return results
RedditFallbackDone ==
    /\ adapter = "Reddit" /\ pc = "r_fallback_done"
    /\ results' = results \o stepRes
    /\ returned' = results \o stepRes
    /\ stepRes' = <<>>
    /\ pc' = RedditAfterFallback("r_primary_done")
    /\ UNCHANGED <<orchVars, reqVars, itemVars, sharedVars, obs, inVars, quota, ci, vi, ni, si, flag, retry, examined,
                   calls, primaryYield>>

RedditNext ==
    \/ RedditSearch \/ RedditSubreddit \/ RedditSortMethod \/ RedditPost
    \/ RedditPrimaryDone \/ RedditTopPost \/ RedditFallbackDone

(***************************************************************************)
(* app/scraper/twitter.py                                                  *)
(***************************************************************************)
\* twitter.py:211: whether tweet text c passes the keyword test
TwitterPasses(c, kws) == AnyIn(KeywordsLower(kws), Lower(c.text))

\* (mutant) a second step that runs whenever the first gave fewer items
\* than the limit
TwitterFallbackBelowLimit(n) == n < limit

\* twitter.py:70, `if results and len(results) > 0: return results`: the
\* fallback runs when snscrape gave nothing (or raised, which leaves nothing)
TwitterNeedsFallback(n) == ~(n > 0)

\* (mutant) an except block that returns what was collected
TwitterKeepsOnRaise(collected) == collected

\* twitter.py:142-144 and 74-75: the exception is re-raised and caught in
\* search, where nothing of the step's list is left
TwitterAfterRaise(collected) == <<>>

\* twitter.py:100-101, since:<date of now - days_back>: the search service
\* yields the tweets dated on or after that calendar day
SinceAdmits(t) == DayOf(t) >= DayOf(Cutoff)

\* twitter.py:67-69 and 90-107: search calls _search_with_snscrape, which
\* builds the query and the scraper; an exception there reaches the except
\* of twitter.py:74
TwitterSearch ==
    /\ adapter = "Twitter" /\ pc = "start"
    /\ calls' = [calls EXCEPT !.primary = @ + 1]
    /\ quota' = limit
    /\ stepRes' = <<>>
    /\ ci' = 0 /\ vi' = 0 /\ si' = 0 /\ ni' = 0
    /\ \E built \in BOOLEAN :
         /\ pc' = IF built THEN "t_sns" ELSE OnFailure("t_after_primary")
         /\ obs' = Made([obs EXCEPT !.primaryFailed = ~built], built)
    /\ UNCHANGED <<orchVars, reqVars, itemVars, sharedVars, inVars, results, flag, retry, examined,
                   primaryYield, returned>>

\* twitter.py:109-144: one turn of the loop over scraper.get_items()
TwitterSnsTweet ==
    /\ adapter = "Twitter" /\ pc = "t_sns"
    /\ UNCHANGED <<orchVars, reqVars, itemVars, sharedVars, inVars, results, quota, ci, vi, si, flag, retry,
                   examined, calls, primaryYield, returned>>
    /\ \/ \* a tweet arrives: break at the limit (:111-112), else append
          /\ ni < MaxListing
          /\ \E c \in TextCandidates :
               /\ SinceAdmits(c.ts)
               /\ IF Len(stepRes) >= quota
                  THEN pc' = "t_after_primary" /\ ni' = 0 /\ UNCHANGED stepRes
                  ELSE /\ stepRes' = Append(stepRes, Item(c, "primary"))
                       /\ ni' = ni + 1
                       /\ pc' = pc
          /\ obs' = Called(obs)
       \/ \* the items end: return results (:140-141)
          /\ pc' = "t_after_primary" /\ ni' = 0
          /\ obs' = Called(obs)
          /\ UNCHANGED stepRes
       \/ \* get_items or the conversion raises: re-raised at :144, the
          \* collected tweets are lost with the frame
          /\ pc' = OnFailure("t_after_primary") /\ ni' = 0
          /\ stepRes' = TwitterAfterRaise(stepRes)
          /\ obs' = [Called(obs) EXCEPT !.primaryFailed = TRUE,
                                        !.lost = Len(stepRes)]

\* twitter.py:70-79 and 151-162: the primary's list is returned when it is
\* not empty; otherwise _search_with_playwright is called and launches the
\* browser (a failure there is caught at twitter.py:281 and gives [])
TwitterAfterPrimary ==
    /\ adapter = "Twitter" /\ pc = "t_after_primary"
    /\ primaryYield' = Len(stepRes)
    /\ ci' = 0 /\ vi' = 0 /\ si' = 0 /\ ni' = 0
    /\ stepRes' = <<>>
    /\ IF TwitterNeedsFallback(Len(stepRes))
       THEN /\ calls' = [calls EXCEPT !.fallback = @ + 1]
            /\ quota' = limit
            /\ \E launched \in BOOLEAN, got \in BOOLEAN :
                 /\ obs' = Acquire(obs, launched, got)
                 /\ IF launched
                    THEN pc' = "t_account" /\ UNCHANGED <<results, returned>>
                    ELSE pc' = OnFailure("done") /\ results' = <<>>
                         /\ returned' = <<>>
       ELSE /\ pc' = "done"
            /\ results' = stepRes
            /\ returned' = stepRes
            /\ UNCHANGED <<calls, quota, obs>>
    /\ UNCHANGED <<orchVars, reqVars, itemVars, sharedVars, inVars, flag, retry, examined>>

\* twitter.py:165-198: the head of the account loop, the navigation and the
\* search for tweet elements
TwitterAccount ==
    /\ adapter = "Twitter" /\ pc = "t_account"
    /\ UNCHANGED <<orchVars, reqVars, itemVars, sharedVars, inVars, results, stepRes, quota, vi, si, flag,
                   retry, examined, calls, primaryYield, returned>>
    /\ ni' = 0
    /\ IF ci >= MaxPool \/ Len(stepRes) >= quota
       THEN pc' = "t_close" /\ UNCHANGED <<ci, obs>>
       ELSE /\ obs' = Called(obs)
            /\ \/ \* goto raises (:272-274) or no tweet element is found
                  \* (:196-198)
                  pc' = pc /\ ci' = ci + 1
               \/ \* tweet elements are found
                  pc' = "t_tweet" /\ UNCHANGED ci

\* twitter.py:201-270: one turn of the loop over the tweet elements
TwitterTweet ==
    /\ adapter = "Twitter" /\ pc = "t_tweet"
    /\ UNCHANGED <<orchVars, reqVars, itemVars, sharedVars, obs, inVars, results, quota, vi, si, flag, retry,
                   examined, calls, primaryYield, returned>>
    /\ \/ \* an element: break at the limit (:202-203), else match and append
          /\ ni < MaxListing
          /\ \E c \in TextCandidates, read \in BOOLEAN :
               IF Len(stepRes) >= quota
               THEN pc' = "t_account" /\ ci' = ci + 1 /\ ni' = 0
                    /\ UNCHANGED stepRes
               ELSE /\ stepRes' = IF read /\ TwitterPasses(c, keywords)
                                  THEN Append(stepRes, ItemNow(c, "fallback"))
                                  ELSE stepRes
                    /\ ni' = ni + 1
                    /\ UNCHANGED <<pc, ci>>
       \/ \* the elements end: next account
          /\ pc' = "t_account" /\ ci' = ci + 1 /\ ni' = 0
          /\ UNCHANGED stepRes

\* twitter.py:276-283: browser.close() and the exit of async_playwright; an
\* exception there is caught at :281 and [] is returned
TwitterClose ==
    /\ adapter = "Twitter" /\ pc = "t_close"
    /\ \E closed \in BOOLEAN :
         /\ results' = IF closed THEN stepRes ELSE <<>>
         /\ returned' = IF closed THEN stepRes ELSE <<>>
         /\ pc' = IF closed THEN "done" ELSE OnFailure("done")
         /\ obs' = Release(obs, closed)
    /\ stepRes' = <<>>
    /\ UNCHANGED <<orchVars, reqVars, itemVars, sharedVars, inVars, quota, idxVars, flag, retry, examined,
                   calls, primaryYield>>

TwitterNext ==
    \/ TwitterSearch \/ TwitterSnsTweet \/ TwitterAfterPrimary
    \/ TwitterAccount \/ TwitterTweet \/ TwitterClose

(***************************************************************************)
(* app/scraper/telegram.py                                                 *)
(***************************************************************************)
\* telegram.py:91
max_retries == 3

\* (mutant) the limit test of the message loop off by one
TelegramLimitOffByOne(n, lim) == n > lim

\* telegram.py:199, len(results) >= limit
TelegramLimitReached(n, lim) == n >= lim

\* (mutant) a retry loop without the bound
TelegramRetryUntilSuccess(retry_count, success) == ~success

\* telegram.py:95, while retry_count < max_retries and not success
TelegramRetryGoesOn(retry_count, success) ==
    retry_count < max_retries /\ ~success

\* (mutant) a loop that takes the same channel again
TelegramSameChannel(c) == c

\* telegram.py:81, for channel in TelegramScraper.PUBLIC_CHANNELS: the
\* index of the channel taken after channel c
TelegramNextChannel(c) == c + 1

\* (mutant) a match on the keywords of the query alone
TelegramKeywordsOnly(c, kws) == AnyIn(KeywordsLower(kws), Lower(c.text))

\* telegram.py:229-235: whether message text c passes
TelegramPasses(c, kws) ==
    LET content_lower == Lower(c.text)
        keywords_match == AnyIn(KeywordsLower(kws), content_lower)
        broader_match == AnyIn(broader_keywords, content_lower)
    IN ~(~keywords_match /\ ~broader_match)

\* (mutant) a private channel counted as one more failed attempt
TelegramPrivateCounted(retry_count) == retry_count + 1

\* telegram.py:141-148: with a private indicator found, retry_count =
\* max_retries, which also skips the increment and the pause
TelegramPrivateFound(retry_count) == max_retries

\* telegram.py:47-78: search launches the browser; a failure is caught at
\* telegram.py:300 and gives []
TelegramSearch ==
    /\ adapter = "Telegram" /\ pc = "start"
    /\ calls' = [calls EXCEPT !.primary = @ + 1]
    /\ ci' = 0 /\ vi' = 0 /\ si' = 0 /\ ni' = 0
    /\ \E launched \in BOOLEAN, got \in BOOLEAN :
         /\ pc' = IF launched THEN "g_channel" ELSE OnFailure("done")
         /\ obs' = Acquire([obs EXCEPT !.primaryFailed = ~launched],
                           launched, got)
    /\ UNCHANGED <<orchVars, reqVars, itemVars, sharedVars, inVars, results, stepRes, quota, flag, retry,
                   examined, primaryYield, returned>>

\* telegram.py:81-93: the head of the channel loop
TelegramChannel ==
    /\ adapter = "Telegram" /\ pc = "g_channel"
    /\ IF ci >= MaxPool \/ Len(results) >= limit
       THEN pc' = "g_close"
       ELSE pc' = "g_nav"
    /\ retry' = 0 /\ flag' = FALSE /\ ni' = 0
    /\ obs' = [obs EXCEPT !.attempts = 0, !.pauses = 0]
    /\ UNCHANGED <<orchVars, reqVars, itemVars, sharedVars, inVars, results, stepRes, quota, ci, vi, si,
                   examined, calls, primaryYield, returned>>

\* telegram.py:95-153: one navigation attempt of the retry loop
TelegramNavigate ==
    /\ adapter = "Telegram" /\ pc = "g_nav"
    /\ TelegramRetryGoesOn(retry, flag)
    /\ \/ \* the channel page loaded (:108-131)
          /\ flag' = TRUE /\ UNCHANGED retry
          /\ obs' = [Called(obs) EXCEPT !.attempts = @ + 1]
       \/ \* a private / not accessible indicator (:141-145)
          /\ retry' = TelegramPrivateFound(retry) /\ UNCHANGED flag
          /\ obs' = [Called(obs) EXCEPT !.attempts = @ + 1,
                                        !.privates = @ \cup {ci}]
       \/ \* not loaded (:147-149) or an exception (:150-153):
          \* asyncio.sleep(2)
          /\ retry' = retry + 1 /\ UNCHANGED flag
          /\ obs' = [Called(obs) EXCEPT !.attempts = @ + 1, !.pauses = @ + 1]
    /\ UNCHANGED <<orchVars, reqVars, itemVars, sharedVars, inVars, pc, results, stepRes, quota, idxVars,
                   examined, calls, primaryYield, returned>>

\* telegram.py:155-194: after the retry loop, the scroll and the search for
\* message elements
TelegramAfterNav ==
    /\ adapter = "Telegram" /\ pc = "g_nav"
    /\ ~TelegramRetryGoesOn(retry, flag)
    /\ IF ~flag
       THEN pc' = "g_channel" /\ ci' = TelegramNextChannel(ci)
       ELSE \/ \* no message element (:188-191) or an exception (:291-293)
               pc' = "g_channel" /\ ci' = TelegramNextChannel(ci)
            \/ \* message elements are found
               pc' = "g_message" /\ UNCHANGED ci
    /\ retry' = 0 /\ flag' = FALSE /\ ni' = 0
    /\ obs' = [obs EXCEPT !.attempts = 0, !.pauses = 0]
    /\ UNCHANGED <<orchVars, reqVars, itemVars, sharedVars, inVars, results, stepRes, quota, vi, si,
                   examined, calls, primaryYield, returned>>

\* telegram.py:198-287: one turn of the loop over the message elements
TelegramMessage ==
    /\ adapter = "Telegram" /\ pc = "g_message"
    /\ UNCHANGED <<orchVars, reqVars, itemVars, sharedVars, obs, inVars, stepRes, quota, vi, si, flag, retry,
                   examined, calls, primaryYield, returned>>
    /\ \/ \* an element: break at the limit (:199-200), else read, match,
          \* take its datetime attribute as timestamp and append
          /\ ni < MaxListing
          /\ \E c \in TextCandidates, read \in BOOLEAN :
               IF TelegramLimitReached(Len(results), limit)
               THEN pc' = "g_channel" /\ ci' = TelegramNextChannel(ci) /\ ni' = 0
                    /\ UNCHANGED results
               ELSE /\ results' = IF read /\ c.text # <<>>
                                     /\ TelegramPasses(c, keywords)
                                  THEN Append(results, Item(c, "primary"))
                                  ELSE results
                    /\ ni' = ni + 1
                    /\ UNCHANGED <<pc, ci>>
       \/ \* the elements end: next channel
          /\ pc' = "g_channel" /\ ci' = TelegramNextChannel(ci) /\ ni' = 0
          /\ UNCHANGED results

\* telegram.py:295-302: browser.close() and the exit of async_playwright; an
\* exception there is caught at :300 and [] is returned
TelegramClose ==
    /\ adapter = "Telegram" /\ pc = "g_close"
    /\ \E closed \in BOOLEAN :
         /\ results' = IF closed THEN results ELSE <<>>
         /\ returned' = IF closed THEN results ELSE <<>>
         /\ obs' = Release([obs EXCEPT !.primaryFailed = ~closed], closed)
         /\ pc' = IF closed THEN "done" ELSE OnFailure("done")
    /\ primaryYield' = Len(returned')
    /\ UNCHANGED <<orchVars, reqVars, itemVars, sharedVars, inVars, stepRes, quota, idxVars, flag, retry,
                   examined, calls>>

TelegramNext ==
    \/ TelegramSearch \/ TelegramChannel \/ TelegramNavigate
    \/ TelegramAfterNav \/ TelegramMessage \/ TelegramClose

(***************************************************************************)
(* app/scraper/facebook.py                                                 *)
(***************************************************************************)
\* facebook.py:131-134, the mobile and the mbasic URL of a page
NumUrlVariants == 2
\* facebook.py:180-186, the selectors tried on a page
NumSelectors == 5

\* (mutant) the tiers without the lenient branch: a keyword or a domain
\* term is always required
FacebookTierMatchStrict(keywords_match, broader_match, tech_match, res) ==
    keywords_match \/ broader_match

\* facebook.py:215-220 and 315-320: TRUE when neither `continue` is taken
FacebookTierMatch(keywords_match, broader_match, tech_match, res) ==
    IF res = <<>> /\ ~(keywords_match \/ broader_match)
    THEN ~(~tech_match)
    ELSE ~(~(keywords_match \/ broader_match \/ tech_match))

\* facebook.py:207-220: whether the text of a page post passes, given the
\* results list of _scrape_facebook
FacebookPasses(c, res, kws) ==
    LET content_lower == Lower(c.text)
    IN FacebookTierMatch(AnyIn(KeywordsLower(kws), content_lower),
                         AnyIn(broader_terms, content_lower),
                         AnyIn(tech_terms, content_lower), res)

\* facebook.py:301-320: whether a feed entry passes, given the results list
\* of _scrape_rss_feeds
FacebookRssPasses(c, res, kws) ==
    LET content_lower == Lower(StripTags(c.text))
        title_lower == Lower(c.title)
        kwl == KeywordsLower(kws)
    IN FacebookTierMatch(
           \E i \in DOMAIN kwl :
               IsSubstr(kwl[i], content_lower) \/ IsSubstr(kwl[i], title_lower),
           \E i \in DOMAIN broader_terms :
               IsSubstr(broader_terms[i], content_lower)
                   \/ IsSubstr(broader_terms[i], title_lower),
           \E i \in DOMAIN tech_terms :
               IsSubstr(tech_terms[i], content_lower)
                   \/ IsSubstr(tech_terms[i], title_lower),
           res)

\* (mutant) the items of the feeds put in front
FacebookExtendInFront(res, more) == more \o res

\* facebook.py:91, results.extend(rss_results)
FacebookExtend(res, more) == res \o more

\* facebook.py:87, len(results) < limit
FacebookNeedsFallback(n, lim) == n < lim

\* (mutant) the fallback given the full limit
FacebookFallbackFullLimit(n, lim) == lim

\* facebook.py:90, limit - len(results)
FacebookFallbackQuota(n, lim) == lim - n

\* facebook.py:95, results[:limit]
FacebookTruncate(res, lim) ==
    SubSeq(res, 1, IF Len(res) < lim THEN Len(res) ELSE lim)

\* facebook.py:61-82 and 102-123: search calls _scrape_facebook, which
\* launches the browser; a failure is caught at facebook.py:257
FacebookSearch ==
    /\ adapter = "Facebook" /\ pc = "start"
    /\ calls' = [calls EXCEPT !.primary = @ + 1]
    /\ quota' = limit
    /\ stepRes' = <<>>
    /\ ci' = 0 /\ vi' = 0 /\ si' = 0 /\ ni' = 0
    /\ \E launched \in BOOLEAN, got \in BOOLEAN :
         /\ pc' = IF launched THEN "f_page" ELSE OnFailure("f_primary_done")
         /\ obs' = Acquire([obs EXCEPT !.primaryFailed = ~launched],
                           launched, got)
    /\ UNCHANGED <<orchVars, reqVars, itemVars, sharedVars, inVars, results, flag, retry, examined,
                   primaryYield, returned>>

\* facebook.py:126-136: the head of the page loop
FacebookPage ==
    /\ adapter = "Facebook" /\ pc = "f_page"
    /\ IF ci >= MaxPool \/ Len(stepRes) >= quota
       THEN pc' = "f_close"
       ELSE pc' = "f_url"
    /\ flag' = FALSE /\ vi' = 0 /\ si' = 0 /\ ni' = 0
    /\ obs' = [obs EXCEPT !.combos = {}]
    /\ UNCHANGED <<orchVars, reqVars, itemVars, sharedVars, inVars, results, stepRes, quota, ci, retry,
                   examined, calls, primaryYield, returned>>

\* facebook.py:137-175 and 249-251: the head of the URL loop and the
\* navigation to the URL
FacebookUrl ==
    /\ adapter = "Facebook" /\ pc = "f_url"
    /\ si' = 0 /\ ni' = 0
    /\ IF vi >= NumUrlVariants \/ flag
       THEN pc' = "f_page" /\ ci' = ci + 1 /\ vi' = 0 /\ UNCHANGED obs
       ELSE /\ obs' = Called(obs)
            /\ \/ \* status not 200 (:150-152) or an exception (:249-251)
                  pc' = pc /\ vi' = vi + 1 /\ UNCHANGED ci
               \/ \* the page loaded
                  pc' = "f_selector" /\ UNCHANGED <<ci, vi>>
    /\ UNCHANGED <<orchVars, reqVars, itemVars, sharedVars, inVars, results, stepRes, quota, flag, retry,
                   examined, calls, primaryYield, returned>>

\* facebook.py:188-192 and 243-247: the head of the selector loop and
\* query_selector_all
FacebookSelector ==
    /\ adapter = "Facebook" /\ pc = "f_selector"
    /\ ni' = 0
    /\ IF si >= NumSelectors
       THEN pc' = "f_url" /\ vi' = vi + 1 /\ si' = 0
       ELSE \/ \* no element, or an exception (:243-245)
               pc' = pc /\ si' = si + 1 /\ UNCHANGED vi
            \/ \* elements are found
               pc' = "f_post" /\ UNCHANGED <<vi, si>>
    /\ UNCHANGED <<orchVars, reqVars, itemVars, sharedVars, obs, inVars, results, stepRes, quota, ci, flag, retry,
                   examined, calls, primaryYield, returned>>

\* (mutant) a selector loop that goes on to the next selector whatever was
\* collected
FacebookAfterPostsGoesOn ==
    flag' = flag /\ pc' = "f_selector" /\ vi' = vi /\ si' = si + 1

\* facebook.py:239-242, after the loop over the elements of one selector:
\* with any result so far the page counts as a success and the selector
\* loop is left
FacebookAfterPosts ==
    IF Len(stepRes) > 0
    THEN flag' = TRUE /\ pc' = "f_url" /\ vi' = vi + 1 /\ si' = 0
    ELSE flag' = flag /\ pc' = "f_selector" /\ vi' = vi /\ si' = si + 1

\* facebook.py:194-242: one turn of the loop over the elements
FacebookPost ==
    /\ adapter = "Facebook" /\ pc = "f_post"
    /\ UNCHANGED <<orchVars, reqVars, itemVars, sharedVars, inVars, results, quota, ci, retry, examined,
                   calls, primaryYield, returned>>
    /\ \/ \* an element, with the limit reached: break (:195-196)
          /\ ni < MaxListing
          /\ Len(stepRes) >= quota
          /\ FacebookAfterPosts
          /\ ni' = 0
          /\ UNCHANGED <<stepRes, obs>>
       \/ \* an element: read (an exception is caught at :235), skipped
          \* when short (:203), matched, appended with the time of now
          /\ ni < MaxListing
          /\ Len(stepRes) < quota
          /\ \E c \in TextCandidates, read \in BOOLEAN :
               IF read /\ Len(c.text) >= MinContentLen
                       /\ FacebookPasses(c, stepRes, keywords)
               THEN /\ stepRes' = Append(stepRes, ItemNow(c, "primary"))
                    /\ obs' = [obs EXCEPT !.combos = @ \cup {<<vi, si>>}]
               ELSE UNCHANGED <<stepRes, obs>>
          /\ ni' = ni + 1
          /\ UNCHANGED <<pc, vi, si, flag>>
       \/ \* the elements end (there was one at least, :191)
          /\ ni > 0
          /\ FacebookAfterPosts
          /\ ni' = 0
          /\ UNCHANGED <<stepRes, obs>>

\* facebook.py:253-260: browser.close(); an exception is caught at :257 and
\* the results are returned all the same
FacebookClose ==
    /\ adapter = "Facebook" /\ pc = "f_close"
    /\ \E closed \in BOOLEAN :
         /\ pc' = IF closed THEN "f_primary_done"
                  ELSE OnFailure("f_primary_done")
         /\ obs' = Release([obs EXCEPT !.primaryFailed = ~closed], closed)
    /\ UNCHANGED <<orchVars, reqVars, itemVars, sharedVars, inVars, results, stepRes, quota, idxVars, flag,
                   retry, examined, calls, primaryYield, returned>>

\* facebook.py:84-95 and 267-270: the page posts are taken; below the limit
\* _scrape_rss_feeds is called with the rest of the limit
FacebookPrimaryDone ==
    /\ adapter = "Facebook" /\ pc = "f_primary_done"
    /\ results' = results \o stepRes
    /\ primaryYield' = Len(stepRes)
    /\ stepRes' = <<>>
    /\ ci' = 0 /\ vi' = 0 /\ si' = 0 /\ ni' = 0 /\ flag' = FALSE
    /\ IF FacebookNeedsFallback(Len(results'), limit)
       THEN /\ calls' = [calls EXCEPT !.fallback = @ + 1]
            /\ quota' = FacebookFallbackQuota(Len(results'), limit)
            /\ pc' = "f_feed"
            /\ UNCHANGED returned
       ELSE /\ pc' = "done"
            /\ returned' = FacebookTruncate(results', limit)
            /\ UNCHANGED <<calls, quota>>
    /\ UNCHANGED <<orchVars, reqVars, itemVars, sharedVars, obs, inVars, retry, examined>>

\* facebook.py:272-284 and 349-351: the head of the feed loop and the fetch
FacebookFeed ==
    /\ adapter = "Facebook" /\ pc = "f_feed"
    /\ ni' = 0
    /\ IF ci >= MaxPool \/ Len(stepRes) >= quota
       THEN pc' = "f_fallback_done" /\ UNCHANGED <<ci, obs>>
       ELSE /\ obs' = Called(obs)
            /\ \/ \* status not 200 (:280-282) or an exception (:349-351)
                  pc' = pc /\ ci' = ci + 1
               \/ \* the feed is fetched and parsed
                  pc' = "f_entry" /\ UNCHANGED ci
    /\ UNCHANGED <<orchVars, reqVars, itemVars, sharedVars, inVars, results, stepRes, quota, vi, si, flag,
                   retry, examined, calls, primaryYield, returned>>

\* facebook.py:286-347: one turn of the loop over the entries
FacebookEntry ==
    /\ adapter = "Facebook" /\ pc = "f_entry"
    /\ UNCHANGED <<orchVars, reqVars, itemVars, sharedVars, obs, inVars, results, quota, vi, si, flag, retry,
                   examined, calls, primaryYield, returned>>
    /\ \/ \* an entry, with the limit reached: break (:287-288)
          /\ ni < MaxListing
          /\ Len(stepRes) >= quota
          /\ pc' = "f_feed" /\ ci' = ci + 1 /\ ni' = 0
          /\ UNCHANGED stepRes
       \/ \* an entry: read (an exception is caught at :345), skipped when
          \* empty (:298), matched, dropped when older than the cutoff
          \* (:328), appended
          /\ ni < MaxListing
          /\ Len(stepRes) < quota
          /\ \E c \in Candidates, read \in BOOLEAN :
               stepRes' = IF read /\ c.text # <<>>
                             /\ FacebookRssPasses(c, stepRes, keywords)
                             /\ ~(c.ts < Cutoff)
                          THEN Append(stepRes, Item(c, "fallback"))
                          ELSE stepRes
          /\ ni' = ni + 1
          /\ UNCHANGED <<pc, ci>>
       \/ \* the entries end: next feed
          /\ pc' = "f_feed" /\ ci' = ci + 1 /\ ni' = 0
          /\ UNCHANGED stepRes

\* facebook.py:92-95: results.extend(rss_results); return results[:limit]
FacebookFallbackDone ==
    /\ adapter = "Facebook" /\ pc = "f_fallback_done"
    /\ results' = FacebookExtend(results, stepRes)
    /\ returned' = FacebookTruncate(FacebookExtend(results, stepRes), limit)
    /\ stepRes' = <<>>
    /\ ci' = 0
    /\ pc' = "done"
    /\ UNCHANGED <<orchVars, reqVars, itemVars, sharedVars, obs, inVars, quota, vi, si, ni, flag, retry, examined,
                   calls, primaryYield>>

FacebookNext ==
    \/ FacebookSearch \/ FacebookPage \/ FacebookUrl \/ FacebookSelector
    \/ FacebookPost \/ FacebookClose \/ FacebookPrimaryDone
    \/ FacebookFeed \/ FacebookEntry \/ FacebookFallbackDone

(***************************************************************************)
(* app/scraper/rss.py                                                      *)
(***************************************************************************)
\* rss.py:69-74, contains_keywords
contains_keywords(text, kws) ==
    LET text_lower == Lower(text)
    IN \E i \in DOMAIN kws : IsSubstr(Lower(kws[i]), text_lower)

\* (mutant) the limit test off by one
RssLimitOffByOne(n, lim) == n > lim

\* rss.py:88, len(results) >= limit
RssLimitReached(n, lim) == n >= lim

\* rss.py:91-95: whether a feed entry passes
RssPasses(c, kws) ==
    contains_keywords(c.title, kws) \/ contains_keywords(c.text, kws)

\* rss.py:66-77: search opens the HTTP session; a failure is caught at
\* rss.py:134 and gives []
RssSearch ==
    /\ adapter = "RSS" /\ pc = "start"
    /\ calls' = [calls EXCEPT !.primary = @ + 1]
    /\ ci' = 0 /\ vi' = 0 /\ si' = 0 /\ ni' = 0
    /\ \E opened \in BOOLEAN :
         /\ pc' = IF opened THEN "x_feed" ELSE OnFailure("done")
         /\ obs' = Acquire([obs EXCEPT !.primaryFailed = ~opened],
                           opened, FALSE)
    /\ UNCHANGED <<orchVars, reqVars, itemVars, sharedVars, inVars, results, stepRes, quota, flag, retry,
                   examined, primaryYield, returned>>

\* rss.py:78-86 and 127-136: the head of the feed loop and
\* feedparser.parse(feed_url); after the last feed the session is closed
\* and the results are returned ([] when leaving the session raises)
RssFeed ==
    /\ adapter = "RSS" /\ pc = "x_feed"
    /\ ni' = 0
    /\ IF ci >= MaxPool
       THEN /\ \E closed \in BOOLEAN :
                 /\ returned' = IF closed THEN results ELSE <<>>
                 /\ pc' = IF closed THEN "done" ELSE OnFailure("done")
                 /\ obs' = [obs EXCEPT !.primaryFailed = ~closed,
                                       !.held = ScopeExit(@)]
            /\ primaryYield' = Len(returned')
            /\ UNCHANGED ci
       ELSE /\ \/ \* the parse raises (:127-129)
                  pc' = pc /\ ci' = ci + 1
               \/ \* the feed is parsed
                  pc' = "x_entry" /\ UNCHANGED ci
            /\ obs' = Called(obs)
            /\ UNCHANGED <<returned, primaryYield>>
    /\ UNCHANGED <<orchVars, reqVars, itemVars, sharedVars, inVars, results, stepRes, quota, vi, si, flag,
                   retry, examined, calls>>

\* rss.py:86-129: one turn of the loop over the entries of a feed
RssEntry ==
    /\ adapter = "RSS" /\ pc = "x_entry"
    /\ UNCHANGED <<orchVars, reqVars, itemVars, sharedVars, obs, inVars, stepRes, quota, vi, si, flag, retry,
                   examined, calls, primaryYield, returned>>
    /\ \/ \* an entry, with the limit reached: break (:88-89)
          /\ ni < MaxListing
          /\ RssLimitReached(Len(results), limit)
          /\ pc' = "x_feed" /\ ci' = ci + 1 /\ ni' = 0
          /\ UNCHANGED results
       \/ \* an entry: matched, its page fetched, appended (:91-125)
          /\ ni < MaxListing
          /\ ~RssLimitReached(Len(results), limit)
          /\ \E c \in Candidates :
               results' = IF RssPasses(c, keywords)
                          THEN Append(results, Item(c, "primary"))
                          ELSE results
          /\ ni' = ni + 1
          /\ UNCHANGED <<pc, ci>>
       \/ \* the entries end, or an entry raises (:127-129): next feed
          /\ pc' = "x_feed" /\ ci' = ci + 1 /\ ni' = 0
          /\ UNCHANGED results

RssNext ==
    \/ RssSearch \/ RssFeed \/ RssEntry

(***************************************************************************)
(* The relevance matchers on their own: each adapter step that matches     *)
(* candidates against the keywords, applied to one candidate after the     *)
(* other, the accepted ones appended as the step appends them.             *)
(***************************************************************************)
\* the candidates of the steps that match a text alone
MatchTextCandidates == {c \in MatchCandidates : c.title = <<>>}

\* the number of items the invocation has accepted so far
Accepted == Len(results) + Len(stepRes)

\* the step's list after candidate c was tried
AfterMatch(res, c, passed, s) ==
    IF passed THEN Append(res, ItemNow(c, s)) ELSE res

\* reddit.py:181-192, in _search_subreddits
MatchReddit ==
    /\ adapter = "Reddit" /\ pc = "m_primary"
    /\ Len(stepRes) < limit
    /\ \E c \in MatchCandidates :
         LET passed == RedditPasses(c, keywords)
         IN /\ examined' = Exam(c, Accepted, passed)
            /\ stepRes' = AfterMatch(stepRes, c, passed, "primary")
    /\ UNCHANGED <<orchVars, reqVars, itemVars, sharedVars, obs, inVars, pc, results, quota, idxVars, flag, retry,
                   calls, primaryYield, returned>>

\* twitter.py:206-266, in _search_with_playwright, which runs when snscrape
\* gave nothing
MatchTwitter ==
    /\ adapter = "Twitter" /\ pc = "m_fallback"
    /\ Len(stepRes) < limit
    /\ \E c \in MatchTextCandidates :
         LET passed == TwitterPasses(c, keywords)
         IN /\ examined' = Exam(c, Accepted, passed)
            /\ stepRes' = AfterMatch(stepRes, c, passed, "fallback")
    /\ UNCHANGED <<orchVars, reqVars, itemVars, sharedVars, obs, inVars, pc, results, quota, idxVars, flag, retry,
                   calls, primaryYield, returned>>

\* telegram.py:225-282: a message with a text is matched
MatchTelegram ==
    /\ adapter = "Telegram" /\ pc = "m_primary"
    /\ Len(stepRes) < limit
    /\ \E c \in MatchTextCandidates :
         /\ c.text # <<>>
         /\ LET passed == TelegramPasses(c, keywords)
            IN /\ examined' = Exam(c, Accepted, passed)
               /\ stepRes' = AfterMatch(stepRes, c, passed, "primary")
    /\ UNCHANGED <<orchVars, reqVars, itemVars, sharedVars, obs, inVars, pc, results, quota, idxVars, flag, retry,
                   calls, primaryYield, returned>>

\* facebook.py:200-233, in _scrape_facebook: a post whose text is not short
\* is matched
MatchFacebookDirect ==
    /\ adapter = "Facebook" /\ pc = "m_primary"
    /\ Len(stepRes) < limit
    /\ \E c \in MatchTextCandidates :
         /\ Len(c.text) >= MinContentLen
         /\ LET passed == FacebookPasses(c, stepRes, keywords)
            IN /\ examined' = Exam(c, Accepted, passed)
               /\ stepRes' = AfterMatch(stepRes, c, passed, "primary")
    /\ UNCHANGED <<orchVars, reqVars, itemVars, sharedVars, obs, inVars, pc, results, quota, idxVars, flag, retry,
                   calls, primaryYield, returned>>

\* facebook.py:84-91: below the limit, search goes on to _scrape_rss_feeds,
\* which starts a list of its own (:267)
MatchFacebookToFeeds ==
    /\ adapter = "Facebook" /\ pc = "m_primary"
    /\ FacebookNeedsFallback(Len(results \o stepRes), limit)
    /\ results' = results \o stepRes
    /\ stepRes' = <<>>
    /\ quota' = FacebookFallbackQuota(Len(results'), limit)
    /\ pc' = "m_fallback"
    /\ examined' = NoExam
    /\ UNCHANGED <<orchVars, reqVars, itemVars, sharedVars, obs, inVars, idxVars, flag, retry, calls, primaryYield,
                   returned>>

\* facebook.py:291-342, in _scrape_rss_feeds: an entry with a summary is
\* matched on its title and on the text of the summary outside the markup
MatchFacebookRss ==
    /\ adapter = "Facebook" /\ pc = "m_fallback"
    /\ Len(stepRes) < quota
    /\ \E c \in MatchCandidates :
         /\ c.text # <<>>
         /\ LET passed == FacebookRssPasses(c, stepRes, keywords)
                seenAs == [c EXCEPT !.text = StripTags(c.text)]
            IN /\ examined' = Exam(seenAs, Accepted, passed)
               /\ stepRes' = AfterMatch(stepRes, seenAs, passed, "fallback")
    /\ UNCHANGED <<orchVars, reqVars, itemVars, sharedVars, obs, inVars, pc, results, quota, idxVars, flag, retry,
                   calls, primaryYield, returned>>

\* rss.py:88-125: an entry is matched on its title and its summary
MatchRss ==
    /\ adapter = "RSS" /\ pc = "m_primary"
    /\ ~RssLimitReached(Len(stepRes), limit)
    /\ \E c \in MatchCandidates :
         LET passed == RssPasses(c, keywords)
         IN /\ examined' = Exam(c, Accepted, passed)
            /\ stepRes' = AfterMatch(stepRes, c, passed, "primary")
    /\ UNCHANGED <<orchVars, reqVars, itemVars, sharedVars, obs, inVars, pc, results, quota, idxVars, flag, retry,
                   calls, primaryYield, returned>>


(***************************************************************************)
(* The making of one SocialMediaPost: what each adapter step puts into     *)
(* the content of the post it makes of an item of its source.              *)
(***************************************************************************)
\* facebook.py:225 and 334, the length content is cut to
ContentCap == 1000

\* a text of n characters
TextOfLen(n) == [i \in 1..n |-> "x"]

\* Python's s[:n]
Slice(s, n) == SubSeq(s, 1, IF Len(s) < n THEN Len(s) ELSE n)

\* the lengths of the texts the sources give: none, around the shortest
\* text Facebook takes, around the cut, the longest
ContentLengths ==
    {0, MinContentLen - 1, MinContentLen, ContentCap - 1, ContentCap, MaxContent}

\* the steps that make posts
PostMakers ==
    {"reddit", "twitter_sns", "twitter_playwright", "telegram",
     "facebook_page", "facebook_rss"}

\* what a source gives for one item: a title (Reddit posts and feed entries
\* have one) and a text
RawItems ==
    [maker : PostMakers, title : Titles,
     text : {TextOfLen(n) : n \in ContentLengths}]
NoCandidate == [maker |-> None, title |-> <<>>, text |-> <<>>]
NoPost == [made |-> FALSE, skipped |-> FALSE, source |-> None, content |-> <<>>]
Skipped == [made |-> FALSE, skipped |-> TRUE, source |-> None, content |-> <<>>]
Post(source, content) ==
    [made |-> TRUE, skipped |-> FALSE, source |-> source, content |-> content]

\* reddit.py:116-118: the title, and the selftext after a blank line when
\* there is one
RedditContent(title, selftext) ==
    IF selftext # <<>> THEN title \o <<"\n", "\n">> \o selftext ELSE title

\* facebook.py:334, f"{entry.title}\n\n{text_content}"[:1000]
FacebookRssContent(title, text_content) ==
    Slice(title \o <<"\n", "\n">> \o text_content, ContentCap)

\* facebook.py:225, content[:1000]
FacebookPageContent(content) == Slice(content, ContentCap)

\* reddit.py:87-133, _create_social_media_post
RedditCreatePost ==
    /\ candidate.maker = "reddit" /\ post = NoPost
    /\ post' = Post("reddit", RedditContent(candidate.title, candidate.text))
    /\ UNCHANGED <<orchVars, adVars, reqVars, sharedVars, candidate>>

\* twitter.py:126-134, content=tweet.content
TwitterSnsPost ==
    /\ candidate.maker = "twitter_sns" /\ post = NoPost
    /\ post' = Post("twitter", candidate.text)
    /\ UNCHANGED <<orchVars, adVars, reqVars, sharedVars, candidate>>

\* twitter.py:223-262: a tweet element without text is passed over; the
\* post has content=tweet_text
TwitterPlaywrightPost ==
    /\ candidate.maker = "twitter_playwright" /\ post = NoPost
    /\ post' = IF candidate.text = <<>> THEN Skipped
               ELSE Post("twitter", candidate.text)
    /\ UNCHANGED <<orchVars, adVars, reqVars, sharedVars, candidate>>

\* telegram.py:214-280: a message without text is passed over; the post
\* has content=content
TelegramPost ==
    /\ candidate.maker = "telegram" /\ post = NoPost
    /\ post' = IF candidate.text = <<>> THEN Skipped
               ELSE Post("telegram", candidate.text)
    /\ UNCHANGED <<orchVars, adVars, reqVars, sharedVars, candidate>>

\* facebook.py:200-233: a text shorter than 20 characters is passed over
FacebookPagePost ==
    /\ candidate.maker = "facebook_page" /\ post = NoPost
    /\ post' = IF Len(candidate.text) < MinContentLen THEN Skipped
               ELSE Post("facebook", FacebookPageContent(candidate.text))
    /\ UNCHANGED <<orchVars, adVars, reqVars, sharedVars, candidate>>

\* facebook.py:291-340: an entry without summary is passed over
FacebookRssPost ==
    /\ candidate.maker = "facebook_rss" /\ post = NoPost
    /\ post' = IF candidate.text = <<>> THEN Skipped
               ELSE Post("facebook",
                         FacebookRssContent(candidate.title, candidate.text))
    /\ UNCHANGED <<orchVars, adVars, reqVars, sharedVars, candidate>>

(***************************************************************************)
(* The making of one NewsArticle by the RSS adapter.                       *)
(***************************************************************************)
\* rss.py:47, the length the text of a fetched page is cut to
ArticleCap == 5000

\* the lengths of the summaries and of the page texts: none, short, around
\* the cut, the longest
ArticleLengths == {0, MinContentLen, ArticleCap, ArticleCap + 1, MaxArticle}

\* what a feed gives for one entry that matched: its title, its summary and
\* whether it has a link
RawEntries ==
    [maker : {"rss"}, title : Titles,
     text : {TextOfLen(n) : n \in ArticleLengths}, link : BOOLEAN]

\* rss.py:49 and 52, the texts returned for a page that could not be read
FetchFailedText == TextOfLen(31)

\* rss.py:47, content[:5000] + "..." if len(content) > 5000 else content
CutContent(content) ==
    IF Len(content) > ArticleCap
    THEN Slice(content, ArticleCap) \o <<".", ".", ".">>
    ELSE content

\* rss.py:29-52, fetch_article_content: the text of the paragraphs of the
\* page, cut, or a text that says the page could not be read
fetch_article_content(fetched, paragraphs) ==
    IF fetched THEN CutContent(paragraphs) ELSE FetchFailedText

\* rss.py:113-125: the content is the fetched page when the entry has a
\* link and the summary as the feed gave it when it has none
RssArticle ==
    /\ candidate.maker = "rss" /\ post = NoPost
    /\ IF candidate.link
       THEN \E fetched \in BOOLEAN, n \in ArticleLengths :
                post' = Post("rss", fetch_article_content(fetched, TextOfLen(n)))
       ELSE post' = Post("rss", candidate.text)
    /\ UNCHANGED <<orchVars, adVars, reqVars, sharedVars, candidate>>

(***************************************************************************)
(* The adapter tasks of queries served at the same time, by what they      *)
(* write.  The handlers are coroutines on one event loop: while the tasks  *)
(* of one query wait at an await, those of another query run.  A task      *)
(* writes its own results list; the Telegram and Facebook tasks also write *)
(* screenshots to files.                                                   *)
(***************************************************************************)
Queries == 1..MaxQueries
\* the tasks gather makes of the searches of a query, main.py:97-108
Tasks == Queries \X Adapters

\* telegram.py:101, f"/tmp/telegram_before_{channel}.png"
TelegramBeforePath(channel) == <<"/tmp/telegram_before_", channel, ".png">>
\* telegram.py:110, f"/tmp/telegram_after_{channel}.png"
TelegramAfterPath(channel) == <<"/tmp/telegram_after_", channel, ".png">>
\* facebook.py:159, f"/tmp/facebook_{page_name}.png"
FacebookPath(page_name) == <<"/tmp/facebook_", page_name, ".png">>
\* results = [] of a search (telegram.py:47, facebook.py:102 and the
\* like): a list of the call, one for each task
ResultsOf(t) == <<"results", t>>

\* the places in memory and on disk that the tasks write
WriteTargets ==
    {TelegramBeforePath(c) : c \in 1..MaxVisited}
        \cup {TelegramAfterPath(c) : c \in 1..MaxVisited}
        \cup {FacebookPath(c) : c \in 1..MaxVisited}
        \cup {ResultsOf(t) : t \in Tasks}

\* a task that gather has not scheduled yet, and one whose search returned
NotStarted == [at |-> "new", c |-> 0]
Finished == [at |-> "done", c |-> 0]
\* a task at the head of its candidate loop, before candidate c + 1
AtCandidate(c) == [at |-> "loop", c |-> c]
\* the Telegram task after the screenshot taken before the navigation
AtNavigation(c) == [at |-> "goto", c |-> c]

\* the history of writes after task t wrote location l
Wrote(t, l) == [written EXCEPT ![l] = @ \cup {t}]

\* main.py:97-108: the coroutines of query q are made and gather schedules
\* them as tasks
ScheduleTasks(q) ==
    /\ \A a \in Adapters : tpc[<<q, a>>] = NotStarted
    /\ tpc' = [t \in Tasks |-> IF t[1] = q THEN AtCandidate(0) ELSE tpc[t]]
    /\ UNCHANGED <<orchVars, adVars, reqVars, itemVars, written>>

\* telegram.py:95-103: before each navigation the page is saved to the file
\* named after the channel
TelegramScreenshotBefore(t) ==
    /\ t[2] = "Telegram"
    /\ tpc[t] \in {AtCandidate(c) : c \in 0..(MaxVisited - 1)}
    /\ written' = Wrote(t, TelegramBeforePath(tpc[t].c + 1))
    /\ tpc' = [tpc EXCEPT ![t] = AtNavigation(tpc[t].c)]
    /\ UNCHANGED <<orchVars, adVars, reqVars, itemVars>>

\* telegram.py:106-112 and 114-158: after a navigation answered with 200
\* the page is saved again; then, or after the navigation failed, the
\* messages are read and the next channel is taken
TelegramNavigated(t) ==
    /\ t[2] = "Telegram"
    /\ tpc[t] \in {AtNavigation(c) : c \in 0..(MaxVisited - 1)}
    /\ \E ok \in BOOLEAN :
         written' = IF ok THEN Wrote(t, TelegramAfterPath(tpc[t].c + 1))
                    ELSE written
    /\ tpc' = [tpc EXCEPT ![t] = AtCandidate(tpc[t].c + 1)]
    /\ UNCHANGED <<orchVars, adVars, reqVars, itemVars>>

\* facebook.py:126-159: a page is visited and, when it loaded, saved to the
\* file named after the page
FacebookVisit(t) ==
    /\ t[2] = "Facebook"
    /\ tpc[t] \in {AtCandidate(c) : c \in 0..(MaxVisited - 1)}
    /\ \E ok \in BOOLEAN :
         written' = IF ok THEN Wrote(t, FacebookPath(tpc[t].c + 1))
                    ELSE written
    /\ tpc' = [tpc EXCEPT ![t] = AtCandidate(tpc[t].c + 1)]
    /\ UNCHANGED <<orchVars, adVars, reqVars, itemVars>>

\* The search returns the list it has filled (results.append(...) at
\* reddit.py:188, twitter.py:137, telegram.py:282, facebook.py:233,
\* rss.py:125, on the list of the call): a Telegram or Facebook task after
\* its last candidate, another task at any time.
TaskDone(t) ==
    /\ tpc[t] \in {AtCandidate(c) : c \in 0..MaxVisited}
    /\ t[2] \in {"Telegram", "Facebook"} => tpc[t].c = MaxVisited
    /\ tpc' = [tpc EXCEPT ![t] = Finished]
    /\ written' = Wrote(t, ResultsOf(t))
    /\ UNCHANGED <<orchVars, adVars, reqVars, itemVars>>
(***************************************************************************)
(* The specifications.                                                     *)
(***************************************************************************)
\* no query is being served
OrchIdle ==
    /\ opc = "start"
    /\ task = [a \in Adapters |-> "new"]
    /\ loopOwner = None
    /\ outcome = [a \in Adapters |-> Returned(<<>>)]
    /\ report = EmptyReport
    /\ firstDone = None

\* no request has been served
RequestIdle ==
    /\ world = NoWorld
    /\ served = <<>>

\* no item is being made
ItemIdle ==
    /\ candidate = NoCandidate
    /\ post = NoPost

\* no query has been taken up
SharedIdle ==
    /\ tpc = [t \in Tasks |-> NotStarted]
    /\ written = [l \in WriteTargets |-> {}]

\* no adapter invocation is being followed
AdapterIdle ==
    /\ adapter = None
    /\ keywords = <<>>
    /\ limit = 0
    /\ daysBack = 0
    /\ pc = "idle"
    /\ results = <<>>
    /\ stepRes = <<>>
    /\ quota = 0
    /\ ci = 0 /\ vi = 0 /\ si = 0 /\ ni = 0
    /\ flag = FALSE
    /\ retry = 0
    /\ examined = NoExam
    /\ calls = [primary |-> 0, fallback |-> 0]
    /\ primaryYield = 0
    /\ returned = <<>>
    /\ obs = NoObs

Init == OrchIdle /\ AdapterIdle /\ RequestIdle /\ ItemIdle /\ SharedIdle

Next ==
    \/ StartGather
    \/ \E a \in Adapters : TaskBeginSync(a)
    \/ \E a \in Adapters : TaskEndSync(a)
    \/ \E a \in Adapters : TaskBeginAwait(a)
    \/ \E a \in Adapters : TaskEndAwait(a)
    \/ \E a \in Adapters : TaskReturn(a)
    \/ \E a \in Adapters : TaskRaise(a)
    \/ FinishScrape

Spec == Init /\ [][Next]_vars

\* one call of an adapter's search(keywords, limit, days_back) with a
\* positive limit and a positive days_back
InitAdapter ==
    /\ OrchIdle
    /\ RequestIdle
    /\ ItemIdle
    /\ SharedIdle
    /\ adapter \in Adapters
    /\ keywords \in QueryKeywords
    /\ limit \in 1..MaxLimit
    /\ daysBack \in 1..MaxDaysBack
    /\ pc = "start"
    /\ results = <<>>
    /\ stepRes = <<>>
    /\ quota = 0
    /\ ci = 0 /\ vi = 0 /\ si = 0 /\ ni = 0
    /\ flag = FALSE
    /\ retry = 0
    /\ examined = NoExam
    /\ calls = [primary |-> 0, fallback |-> 0]
    /\ primaryYield = 0
    /\ returned = <<>>
    /\ obs = NoObs

NextAdapter ==
    \/ RedditNext
    \/ TwitterNext
    \/ TelegramNext
    \/ FacebookNext
    \/ RssNext

SpecAdapter == InitAdapter /\ [][NextAdapter]_vars

\* The same with progress: a search that can take a step takes one.  Each
\* step is a piece of computation or one external operation, and each
\* external operation returns or runs into its timeout.
LiveAdapter == InitAdapter /\ [][NextAdapter]_vars /\ WF_vars(NextAdapter)


\* the matching step of one adapter, before its first candidate
InitMatch ==
    /\ OrchIdle
    /\ RequestIdle
    /\ ItemIdle
    /\ SharedIdle
    /\ adapter \in Adapters
    /\ keywords \in QueryKeywords
    /\ limit = MaxLimit
    /\ daysBack = 1
    /\ pc = IF adapter = "Twitter" THEN "m_fallback" ELSE "m_primary"
    /\ results = <<>>
    /\ stepRes = <<>>
    /\ quota = 0
    /\ ci = 0 /\ vi = 0 /\ si = 0 /\ ni = 0
    /\ flag = FALSE
    /\ retry = 0
    /\ examined = NoExam
    /\ calls = [primary |-> 0, fallback |-> 0]
    /\ primaryYield = 0
    /\ returned = <<>>
    /\ obs = NoObs

NextMatch ==
    \/ MatchReddit
    \/ MatchTwitter
    \/ MatchTelegram
    \/ MatchFacebookDirect
    \/ MatchFacebookToFeeds
    \/ MatchFacebookRss
    \/ MatchRss

SpecMatch == InitMatch /\ [][NextMatch]_vars



\* the service before its first request, with the external sources as they
\* are for the time of the requests
InitRequest ==
    /\ OrchIdle
    /\ AdapterIdle
    /\ ItemIdle
    /\ SharedIdle
    /\ world \in Worlds
    /\ served = <<>>

NextRequest ==
    \/ get_all_data
    \/ search_with_fields

SpecRequest == InitRequest /\ [][NextRequest]_vars

\* the same service, asked with bodies whose numbers may be null
NextNullable == search_with_nullable_fields

SpecNullable == InitRequest /\ [][NextNullable]_vars


\* one item of a source, before the step that reads it makes a post of it
InitItem ==
    /\ OrchIdle
    /\ AdapterIdle
    /\ RequestIdle
    /\ SharedIdle
    /\ candidate \in RawItems \cup RawEntries
    /\ post = NoPost

NextItem ==
    \/ RedditCreatePost
    \/ TwitterSnsPost
    \/ TwitterPlaywrightPost
    \/ TelegramPost
    \/ FacebookPagePost
    \/ FacebookRssPost
    \/ RssArticle

SpecItem == InitItem /\ [][NextItem]_vars


\* the service with no query taken up yet
InitShared == OrchIdle /\ AdapterIdle /\ RequestIdle /\ ItemIdle /\ SharedIdle

NextShared ==
    \/ \E q \in Queries : ScheduleTasks(q)
    \/ \E t \in Tasks : TelegramScreenshotBefore(t)
    \/ \E t \in Tasks : TelegramNavigated(t)
    \/ \E t \in Tasks : FacebookVisit(t)
    \/ \E t \in Tasks : TaskDone(t)

SpecShared == InitShared /\ [][NextShared]_vars
(***************************************************************************)
(* Claims about the orchestrator, checked under Spec.                      *)
(***************************************************************************)
\* every item of the report that adapter b produced, in report order
ReportItemsFrom(b) ==
    SelectSeq(report.social_media_posts \o report.news_articles,
              LAMBDA it : it.src = b)

\* C2: when an adapter's search raised, the report returned by scrape_data
\* holds, for every other adapter that returned, exactly the items it
\* returned, in its order, and stats of the failing source is 0.
C2_IsolationOfFailure ==
    opc = "done" =>
        \A a \in Adapters : task[a] = "raised" =>
            /\ a \in DOMAIN report.stats
            /\ report.stats[a] = 0
            /\ \A b \in Adapters \ {a} :
                 task[b] = "returned" => ReportItemsFrom(b) = outcome[b].items

\* C2 witness: a report built after Twitter raised while Reddit and RSS
\* returned items.
C2_Witness ==
    /\ opc = "done"
    /\ task["Twitter"] = "raised"
    /\ Len(outcome["Reddit"].items) = MaxItems
    /\ Len(outcome["RSS"].items) > 0
    /\ ReportItemsFrom("RSS") = outcome["RSS"].items

\* C3: after scrape_data completes, stats has an entry for each of the five
\* sources, equal to the number of items the source's search returned and 0
\* for a source whose task failed.
C3_StatsForEverySource ==
    opc = "done" =>
        /\ DOMAIN report.stats = Adapters
        /\ \A a \in Adapters :
             report.stats[a] = IF task[a] = "raised" THEN 0
                               ELSE Len(outcome[a].items)

\* C3 witness: a finished query with a failed source and a source that
\* returned items.
C3_Witness ==
    /\ opc = "done"
    /\ task["Facebook"] = "raised"
    /\ task["Telegram"] = "returned"
    /\ report.stats["Telegram"] = MaxItems

\* C4: the report is built and returned only after every adapter task has
\* returned or raised.
C4_ReportAfterAllTasks ==
    opc = "done" => \A a \in Adapters : TaskFinished(a)

\* C4 witness: the report was returned after tasks that finished by
\* raising and by returning.
C4_Witness ==
    /\ opc = "done"
    /\ task["Reddit"] = "raised"
    /\ task["RSS"] = "returned"

\* some step of task b, or the completion of the call it waits on
TaskStep(b) ==
    \/ TaskBeginSync(b) \/ TaskEndSync(b)
    \/ TaskBeginAwait(b) \/ TaskEndAwait(b)
    \/ TaskReturn(b) \/ TaskRaise(b)

\* C5: at any point where one adapter task has failed or is waiting on an
\* external call, every other unfinished adapter task is able to take a
\* step.
C5_NeverHeldBack ==
    \A a \in Adapters : \A b \in Adapters \ {a} :
        (task[a] \in {"raised", "blocked", "awaiting"}
            /\ task[b] \in {"ready", "blocked", "awaiting"})
        => ENABLED TaskStep(b)


\* the sources whose items are social media posts
SocialSources == {"Reddit", "Twitter", "Telegram", "Facebook"}

\* how often item it occurs in sequence s
Occurrences(it, s) == Cardinality({k \in DOMAIN s : s[k] = it})

\* C16: the orchestrator classifies each adapter's output by its source
\* alone: the items of Reddit, Twitter, Telegram and Facebook go to
\* social_media_posts and the items of RSS to news_articles, whatever their
\* content, and every returned item is in exactly one of the two sequences.
C16_StaticClassification ==
    opc = "done" =>
        /\ \A k \in DOMAIN report.social_media_posts :
             report.social_media_posts[k].src \in SocialSources
        /\ \A k \in DOMAIN report.news_articles :
             report.news_articles[k].src = "RSS"
        /\ \A a \in Adapters : \A j \in DOMAIN outcome[a].items :
             Occurrences(outcome[a].items[j], report.social_media_posts)
                 + Occurrences(outcome[a].items[j], report.news_articles) = 1

\* a report where Facebook's items read like articles and RSS's like posts
C16_Witness ==
    /\ opc = "done"
    /\ Len(outcome["Facebook"].items) > 0
    /\ outcome["Facebook"].items[1].kind = "article"
    /\ Len(outcome["RSS"].items) > 0
    /\ outcome["RSS"].items[1].kind = "post"
    /\ report.social_media_posts # <<>>
    /\ report.news_articles # <<>>

\* C17: in the report each adapter's items are one block in the adapter's
\* own order, and the blocks are in the order Reddit, Twitter, Telegram,
\* Facebook, whatever the order in which the tasks finished.
C17_BlocksInRegistrationOrder ==
    opc = "done" =>
        report.social_media_posts =
            outcome["Reddit"].items \o outcome["Twitter"].items
                \o outcome["Telegram"].items \o outcome["Facebook"].items

\* a report with items of Reddit and of Facebook, Facebook's task having
\* finished first
C17_Witness ==
    /\ opc = "done"
    /\ firstDone = "Facebook"
    /\ Len(outcome["Reddit"].items) = MaxItems
    /\ Len(outcome["Facebook"].items) = MaxItems
    /\ report.social_media_posts[1].src = "Reddit"


\* C36: in every report of scrape_data the social media posts are as many
\* as the stats of Reddit, Twitter, Telegram and Facebook together and the
\* news articles as many as the stats of RSS; a source whose task failed
\* has no item in either list.
C36_StatsAddUp ==
    opc = "done" =>
        /\ Len(report.social_media_posts) =
               report.stats["Reddit"] + report.stats["Twitter"]
                   + report.stats["Telegram"] + report.stats["Facebook"]
        /\ Len(report.news_articles) = report.stats["RSS"]
        /\ \A a \in Adapters :
               task[a] = "raised" => ReportItemsFrom(a) = <<>>

\* a report with posts of two sources and articles, built after Telegram
\* failed
C36_Witness ==
    /\ opc = "done"
    /\ task["Telegram"] = "raised"
    /\ report.stats["Reddit"] > 0
    /\ report.stats["Facebook"] > 0
    /\ report.stats["RSS"] > 0
    /\ Len(report.social_media_posts) =
           report.stats["Reddit"] + report.stats["Twitter"]
               + report.stats["Facebook"]
    /\ Len(report.news_articles) = report.stats["RSS"]
(***************************************************************************)
(* Properties of one adapter invocation (SpecAdapter).                     *)
(***************************************************************************)
\* C1: for every adapter and every positive limit, the list that one call
\* of search returns has at most limit items, whatever the sources yield,
\* whichever cascade steps run and whichever of them fail.
C1_AtMostLimit ==
    pc = "done" => Len(returned) <= limit

\* a search that ran its fallback step and returned exactly limit items
C1_Witness ==
    /\ pc = "done"
    /\ calls.fallback > 0
    /\ primaryYield > 0
    /\ Len(returned) = limit

\* the adapters whose search has a fallback step
HasFallback == {"Reddit", "Twitter", "Facebook"}

\* C9 (as the code has it): Reddit and Twitter do not invoke the fallback
\* step when the primary step yields at least half the limit; Facebook does
\* not invoke it when the primary step yields at least the limit.
C9_FallbackBelowThreshold ==
    calls.fallback > 0 =>
        /\ adapter \in HasFallback
        /\ adapter \in {"Reddit", "Twitter"} => 2 * primaryYield < limit
        /\ adapter = "Facebook" => primaryYield < limit

\* a Reddit search whose primary step gave half the limit, not the whole,
\* and which returned without the fallback
C9_Witness ==
    /\ pc = "done"
    /\ adapter = "Reddit"
    /\ 2 * primaryYield >= limit
    /\ primaryYield < limit
    /\ calls.fallback = 0

\* C9 (as stated): for Reddit, Twitter and Facebook, when the primary step
\* alone yields at least 50% of the limit, the fallback step is never
\* invoked in that invocation.
C9_FallbackBelowHalf ==
    adapter \in HasFallback /\ calls.fallback > 0 => 2 * primaryYield < limit

\* C10 (as stated): every item an adapter invocation returns has a
\* timestamp no older than now - daysBack; RSS, whose search takes no
\* days_back, is the adapter without recency support.
C10_ReturnedWithinCutoff ==
    pc = "done" /\ adapter # "RSS" =>
        \A i \in DOMAIN returned : returned[i].ts >= Cutoff

(***************************************************************************)
(* Properties of the relevance matchers (SpecMatch).                       *)
(***************************************************************************)
\* the same letter, whatever the case
SameLetter(a, b) ==
    a = b \/ \E i \in DOMAIN Uppers : {a, b} = {Uppers[i], Lowers[i]}

\* k is a substring of s, the case of the letters ignored
ContainsIgnoringCase(k, s) ==
    \E i \in 0..(Len(s) - Len(k)) :
        \A j \in 1..Len(k) : SameLetter(s[i + j], k[j])

\* one of terms is in the title or the text of the examined candidate
ExaminedHas(terms) ==
    \E i \in DOMAIN terms :
        \/ ContainsIgnoringCase(terms[i], examined.title)
        \/ ContainsIgnoringCase(terms[i], examined.text)

\* the examined candidate matches a tech term and nothing else
TechOnly ==
    /\ ExaminedHas(tech_terms)
    /\ ~ExaminedHas(broader_terms)
    /\ ~ExaminedHas(keywords)

\* C6: in every step that matches candidates, a candidate whose text holds a
\* query keyword as a case-insensitive substring passes, however many items
\* the invocation has accepted.
C6_KeywordAlwaysPasses ==
    examined.seen /\ ExaminedHas(keywords) => examined.passed

\* a candidate with the keyword in another case than the query's, passing
\* after an item was accepted
C6_Witness ==
    /\ examined.seen
    /\ examined.prior >= 1
    /\ ExaminedHas(keywords)
    /\ ~(\E i \in DOMAIN keywords :
            IsSubstr(keywords[i], examined.title)
                \/ IsSubstr(keywords[i], examined.text))
    /\ examined.passed

\* C7: in Facebook's three-tier matcher, while the invocation has accepted
\* no item, a candidate whose only match is a tech term is accepted.
C7_BootstrapAcceptsTechOnly ==
    examined.seen /\ adapter = "Facebook" /\ examined.prior = 0 /\ TechOnly
        => examined.passed

\* a tech-only candidate accepted as the first item of the feeds step
C7_Witness ==
    /\ examined.seen
    /\ adapter = "Facebook"
    /\ pc = "m_fallback"
    /\ examined.prior = 0
    /\ TechOnly
    /\ examined.passed

\* C8 (as stated): in Facebook's three-tier matcher, once the invocation has
\* accepted at least one item, in this step or an earlier one, a candidate
\* whose only match is a tech term is rejected.
C8_TechOnlyRejectedAfterFirst ==
    examined.seen /\ adapter = "Facebook" /\ examined.prior >= 1 /\ TechOnly
        => ~examined.passed

\* the domain terms of the adapters that have them: broader_keywords of
\* telegram.py:53-54, broader_terms of facebook.py:67-69
DomainTerms ==
    IF adapter = "Telegram" THEN broader_keywords ELSE broader_terms

\* C30: in Telegram's and Facebook's matchers a candidate whose text holds a
\* domain term passes, whether the invocation has accepted an item before
\* or none.
C30_DomainTermAlwaysPasses ==
    examined.seen /\ adapter \in {"Telegram", "Facebook"}
                  /\ ExaminedHas(DomainTerms)
        => examined.passed

\* a page post with a domain term and neither a keyword nor a tech term,
\* accepted by Facebook's first step as its first item
C30_Witness ==
    /\ examined.seen
    /\ adapter = "Facebook"
    /\ pc = "m_primary"
    /\ examined.prior = 0
    /\ ExaminedHas(broader_terms)
    /\ ~ExaminedHas(tech_terms)
    /\ ~ExaminedHas(keywords)
    /\ examined.passed

FallbackPcs ==
    {"r_top", "r_fallback_done", "t_account", "t_tweet", "t_close",
     "f_feed", "f_entry", "f_fallback_done"}

\* the fallback condition of each adapter, on the n items of the primary step
BelowThreshold(n) ==
    CASE adapter = "Reddit"   -> 2 * n < limit
      [] adapter = "Twitter"  -> n = 0
      [] adapter = "Facebook" -> n < limit
      [] OTHER -> FALSE

\* C12: when a cascade goes on to its fallback step, the step is given the
\* quota limit - itemsCollectedSoFar, which is never the full limit when
\* items were collected, and it goes on only when the items collected so
\* far are below the adapter's threshold.
C12_FallbackGetsRemainingQuota ==
    pc \in FallbackPcs =>
        /\ calls.fallback = 1
        /\ Len(results) = primaryYield
        /\ quota = limit - Len(results)
        /\ BelowThreshold(Len(results))

\* a Facebook search whose feed step got less than the limit and filled it
C12_Witness ==
    /\ pc = "f_entry"
    /\ primaryYield > 0
    /\ quota = limit - primaryYield
    /\ quota < limit
    /\ Len(stepRes) = quota

\* the positions inside the loops over the items of a listing
ItemPcs ==
    {"r_post", "r_top", "t_sns", "t_tweet", "g_message", "f_post", "f_entry",
     "x_entry"}

\* C13: every cascade step stops as soon as its quota is reached, even in
\* the middle of a listing: once an accepted item has brought the step's
\* count to its quota, the step examines and accepts no further item.
C13_StopsAtQuotaMidStep ==
    [][(pc \in ItemPcs /\ (ni' = ni + 1 \/ Len(StepList') > Len(StepList)))
          => Len(StepList) < StepQuota]_vars

\* a Telegram search that has reached its limit inside a channel's messages,
\* with messages of the channel left
C13_Witness ==
    /\ pc = "g_message"
    /\ Len(results) = limit
    /\ ni > 0
    /\ ni < MaxListing

\* C14 (as stated): once an adapter or cascade step has collected its quota
\* of items, it makes no further call to the external source (no feed fetch
\* or parse, no page navigation, no pull from an API listing) for the rest
\* of the step.
C14_NoCallAfterQuota ==
    ~obs.lateCall

\* C15: a channel navigation that fails is retried a bounded number of
\* times: at most 3 attempts are made per channel, each failed attempt that
\* will be repeated is followed by a pause, and when the attempts are
\* exhausted the channel contributes no item and the adapter goes on to the
\* next channel.
C15_BoundedRetry ==
    /\ [](adapter = "Telegram" =>
            /\ obs.attempts <= 3
            /\ (pc = "g_nav" /\ ~flag /\ retry < max_retries
                   => obs.pauses = obs.attempts))
    /\ [][(pc = "g_nav" /\ pc' # "g_nav" /\ ~flag)
             => (pc' = "g_channel" /\ ci' = ci + 1 /\ results' = results)]_vars

\* a channel whose three attempts all failed, each followed by its pause
C15_Witness ==
    /\ pc = "g_nav"
    /\ ~flag
    /\ obs.attempts = 3
    /\ obs.pauses = 3
    /\ retry = max_retries

\* C18: a failure of an external operation inside an adapter never leaves
\* the adapter's search as an exception: search returns a list, which may
\* be empty.
C18_FailureNeverSurfaces ==
    /\ pc # "raised"
    /\ (pc = "done" /\ obs.primaryFailed /\ adapter \in {"Telegram", "RSS"}
           => returned = <<>>)

\* a Telegram search that had collected messages, failed when it closed the
\* browser and returned the empty list
C18_Witness ==
    /\ pc = "done"
    /\ adapter = "Telegram"
    /\ obs.primaryFailed
    /\ primaryYield = 0
    /\ calls.primary = 1
    /\ ci > 0
    /\ returned = <<>>

\* the adapters whose every step works through a client that the step makes
\* (Facebook's second step reads its feeds with requests.get and makes none)
ClientAdapters == {"Reddit", "Twitter", "Telegram", "RSS"}

ScopePcs == {"t_account", "t_tweet", "t_close",
             "g_channel", "g_nav", "g_message", "g_close",
             "f_page", "f_url", "f_selector", "f_post", "f_close",
             "x_feed", "x_entry"}

\* C20: an invocation that acquired a browser (Telegram, Twitter's second
\* step, Facebook) or an HTTP session (RSS) holds it only inside the block
\* that acquired it: it is released when search ends normally, when it
\* stops early at the limit and when it fails after the acquisition.
C20_ReleasedOnEveryExit == obs.held => pc \in ScopePcs

\* a Telegram search that launched its browser, stopped at the limit before
\* the last channel, failed in browser.close() and holds no browser
C20_Witness ==
    /\ pc = "done"
    /\ adapter = "Telegram"
    /\ obs.clientMade
    /\ obs.primaryFailed
    /\ ci < MaxPool
    /\ ~obs.held

\* C25: one invocation never returns the same item of its source twice:
\* a post taken a second time, from another listing of the same candidate,
\* is not in the returned list more than once.
C25_NoSourceItemTwice ==
    (pc = "done" /\ obs.repeated)
        => \A i \in DOMAIN returned, j \in DOMAIN returned :
               i # j => returned[i] # returned[j]

\* C28: every search comes to its end, so that scrape_data, which awaits
\* the five searches, returns its report: the pools are finite, the retries
\* bounded, and the loops over items stop at the limit or at the last item.
C28_SearchReturns == <>(pc = "done")

\* a Telegram search that went through its whole pool of channels, with a
\* channel that used up its navigation attempts, and returned
C28_Witness ==
    /\ pc = "done"
    /\ adapter = "Telegram"
    /\ ci = MaxPool
    /\ obs.clientMade
    /\ ~obs.primaryFailed

\* the places of a search inside its first step, the places where the first
\* step has returned and search decides on the second
PrimaryPcs == {"r_subreddit", "r_sort", "r_post", "t_sns",
               "f_page", "f_url", "f_selector", "f_post", "f_close",
               "g_channel", "g_nav", "g_message", "g_close",
               "x_feed", "x_entry"}
DecisionPcs == {"r_primary_done", "t_after_primary", "f_primary_done"}

\* where an invocation stands in its cascade, by the steps it has invoked
CascadeInOrder ==
    /\ calls.primary <= 1 /\ calls.fallback <= 1
    /\ pc = "start" => calls.primary = 0 /\ calls.fallback = 0
    /\ pc \in PrimaryPcs \cup DecisionPcs
          => calls.primary = 1 /\ calls.fallback = 0
    /\ pc \in FallbackPcs => calls.primary = 1 /\ calls.fallback = 1
    /\ calls.fallback = 1 => adapter \in HasFallback

\* what a step of an invocation may do to its cascade
CascadeForward ==
    /\ calls'.primary >= calls.primary /\ calls'.fallback >= calls.fallback
    /\ calls'.primary > calls.primary => pc = "start"
    /\ calls'.fallback > calls.fallback => pc \in DecisionPcs
    /\ pc' \in PrimaryPcs => pc \in PrimaryPcs \cup {"start"}
    /\ pc' \in DecisionPcs => pc \in PrimaryPcs \cup {"start"}
    /\ pc' \in FallbackPcs => pc \in FallbackPcs \cup DecisionPcs
    /\ pc = "done" => UNCHANGED adVars

\* C29: within one invocation the cascade only moves forward (first step,
\* then second step, then done): each step is invoked at most once, the
\* second step is invoked only after the first has returned, and nothing
\* runs once search has returned.
C29_CascadeOnlyForward == [](CascadeInOrder) /\ [][CascadeForward]_vars

\* a Facebook search that returned items of both of its steps
C29_Witness ==
    /\ pc = "done"
    /\ adapter = "Facebook"
    /\ calls.primary = 1 /\ calls.fallback = 1
    /\ primaryYield > 0
    /\ Len(returned) > primaryYield

\* s is t or the beginning of t
IsPrefix(s, t) == Len(s) <= Len(t) /\ SubSeq(t, 1, Len(s)) = s

\* the items the invocation holds, in the order of its lists
Discovered == results \o stepRes

\* the list that search returned is the beginning of the items it holds,
\* and none of its items of the second step stands before one of the first
ReturnedInOrder ==
    pc = "done" =>
        /\ IsPrefix(returned, Discovered)
        /\ \A i, j \in DOMAIN returned :
               i < j => ~(returned[i].step = "fallback"
                             /\ returned[j].step = "primary")

\* a step of the invocation leaves the items it holds as they are, puts one
\* item behind them, or gives all of them up
GrowsAtEnd ==
    LET old == Discovered
        new == results' \o stepRes'
    IN \/ new = <<>>
       \/ IsPrefix(old, new) /\ Len(new) <= Len(old) + 1

\* C32: within one invocation the items are returned in the order in which
\* they were found: those of the first step before those of the second,
\* inside a step in the order of the candidates; cutting to the limit takes
\* items away from the end only.
C32_ReturnedInDiscoveryOrder == [](ReturnedInOrder) /\ [][GrowsAtEnd]_vars

\* a Facebook search that returned an item of its pages and behind it an
\* item of its feeds
C32_Witness ==
    /\ pc = "done"
    /\ adapter = "Facebook"
    /\ Len(returned) = 2
    /\ returned[1].step = "primary"
    /\ returned[2].step = "fallback"

\* C33: Twitter's search runs its browser step exactly when the snscrape
\* step raised or returned no item; what it returns is of one step only,
\* and the tweets a snscrape step had collected before it raised are not
\* returned.
C33_TwitterOneMethod ==
    pc = "done" /\ adapter = "Twitter" =>
        /\ calls.fallback = 1 <=> (obs.primaryFailed \/ primaryYield = 0)
        /\ calls.fallback = 1 =>
               \A i \in DOMAIN returned : returned[i].step = "fallback"
        /\ calls.fallback = 0 =>
               /\ Len(returned) = primaryYield
               /\ \A i \in DOMAIN returned : returned[i].step = "primary"

\* a Twitter search whose snscrape step raised after it had collected a
\* tweet and whose browser step gave what was returned
C33_Witness ==
    /\ pc = "done"
    /\ adapter = "Twitter"
    /\ obs.primaryFailed
    /\ obs.lost > 0
    /\ primaryYield = 0
    /\ Len(returned) > 0
    /\ \A i \in DOMAIN returned : returned[i].step = "fallback"

BrowserPcs == {"t_account", "t_tweet", "t_close",
               "g_channel", "g_nav", "g_message", "g_close",
               "f_page", "f_url", "f_selector", "f_post", "f_close"}

\* a step taken inside a browser step keeps the items the invocation holds,
\* and what it returns begins with them
KeepsAccepted ==
    pc \in BrowserPcs =>
        /\ IsPrefix(Discovered, results' \o stepRes')
        /\ pc' = "done" => IsPrefix(Discovered, returned')

\* C35: in the steps that work through a browser (Telegram's search,
\* Twitter's second step, Facebook's first step) the items accepted so far
\* are still returned when a later operation of the step fails, the closing
\* of the browser and the exit of the browser session included.
C35_AcceptedSurviveFailure == [][KeepsAccepted]_vars

\* C37: in Facebook's first step at most one pair of URL variant and
\* selector gives items of a page: once a selector on a variant has given
\* an item, no other selector and no other variant of the page is worked
\* on.
C37_OneCombinationPerPage ==
    adapter = "Facebook" =>
        /\ Cardinality(obs.combos) <= 1
        /\ obs.combos # {} /\ pc \in {"f_selector", "f_post"} =>
               pc = "f_post" /\ obs.combos = {<<vi, si>>}
        /\ obs.combos # {} /\ pc = "f_url" => flag

\* the second page gave an item with the second selector of its second
\* variant, and the URL loop is about to be left
C37_Witness ==
    /\ adapter = "Facebook"
    /\ pc = "f_url"
    /\ ci = 1
    /\ flag
    /\ obs.combos = {<<1, 1>>}
    /\ Len(stepRes) = 1

\* C38: in Facebook's first step the second URL variant of a page is tried
\* whenever the first gave no item of that page and the limit is not
\* reached: the first variant counts as a success only for items of that
\* page.
C38_SecondVariantTried ==
    adapter = "Facebook" /\ pc = "f_url" /\ vi = 1
        /\ obs.combos = {} /\ Len(stepRes) < quota
    => ~flag

\* a channel on whose page a private indicator was found is left at once
\* for the next channel, with the items as they are
LeavesPrivateChannel ==
    adapter = "Telegram" /\ pc # "done" /\ ci \in obs.privates =>
        /\ pc' = "g_channel"
        /\ ci' = ci + 1
        /\ results' = results
        /\ obs'.attempts = 0

\* C39: in Telegram's search, once a navigation attempt finds a private or
\* not-accessible indicator on the page of a channel, no other navigation
\* attempt is made for the channel, the channel gives no item and the search
\* goes on with the next channel.
C39_PrivateChannelSkipped ==
    /\ [](adapter = "Telegram" /\ pc # "done" /\ ci \in obs.privates
              => pc = "g_nav" /\ ~flag)
    /\ [][LeavesPrivateChannel]_vars

\* a Telegram search whose first channel was found private and whose
\* second channel gave the item returned
C39_Witness ==
    /\ pc = "done"
    /\ adapter = "Telegram"
    /\ obs.privates = {0}
    /\ ci = MaxPool
    /\ Len(returned) = 1


(***************************************************************************)
(* Claims about the endpoints (SpecRequest).                               *)
(***************************************************************************)
\* the items of a list, as a set
ItemSet(items) == {items[i] : i \in DOMAIN items}

\* two requests served with the same query
SameQuery(x, y) == ScrapeArgs(x.request) = ScrapeArgs(y.request)

\* two reports with the same stats and the same sets of items
SameReport(b, c) ==
    /\ b.stats = c.stats
    /\ ItemSet(b.social_media_posts) = ItemSet(c.social_media_posts)
    /\ ItemSet(b.news_articles) = ItemSet(c.news_articles)

\* C21: two runs of the orchestrator with the same query, against sources
\* that answer (and fail) in the same way and with the same sample of the
\* pool, give reports with the same stats and the same sets of items.
C21_SameQuerySameReport ==
    \A i \in DOMAIN served, j \in DOMAIN served :
        ( /\ SameQuery(served[i], served[j])
          /\ served[i].env.shuffle = served[j].env.shuffle
          /\ served[i].env.fault = served[j].env.fault )
        => SameReport(served[i].response.body, served[j].response.body)

\* C22: the asset class of POST /api/search changes nothing: two requests
\* with the same query that meet the same adapter outcomes get the same
\* response, whatever their asset classes; items and stats are those of the
\* adapter outcomes.
C22_AssetClassNoOp ==
    \A i \in DOMAIN served, j \in DOMAIN served :
        (SameQuery(served[i], served[j]) /\ served[i].env = served[j].env)
        => served[i].response = served[j].response

\* two searches served with the same query and outcomes, one with an asset
\* class and one without, whose reports hold posts
C22_Witness ==
    /\ Len(served) = 2
    /\ served[1].request.endpoint = "POST"
    /\ served[2].request.endpoint = "POST"
    /\ served[1].request.asset_class = "person"
    /\ served[2].request.asset_class = None
    /\ SameQuery(served[1], served[2])
    /\ served[1].env = served[2].env
    /\ served[1].response.status = 200
    /\ served[1].response.body.social_media_posts # <<>>

\* the items of a report
ReportItems(body) ==
    ItemSet(body.social_media_posts) \cup ItemSet(body.news_articles)

\* C23: GET /api/data and POST /api/search answer 200 with the report,
\* which holds all that the searches that did not fail returned, whenever
\* the failures are those of single adapters; the answer is 500 only when
\* the making of the report in scrape_data raises.
C23_ServerErrorOnlyFromScrapeData ==
    \A i \in DOMAIN served :
        LET x == served[i]
            args == ScrapeArgs(x.request)
        IN /\ x.response.status \in {200, 500}
           /\ x.response.status = 500 <=> x.env.fault = "construct"
           /\ x.response.status = 200 =>
                \A a \in Adapters :
                    IF x.env.fault = a
                    THEN x.response.body.stats[a] = 0
                    ELSE ItemSet(SearchOf(a, args, x.env, world))
                             \subseteq ReportItems(x.response.body)

\* a search served while the Reddit adapter raised: 200, with the article
\* of the RSS adapter and the post of another social source
C23_Witness ==
    /\ served # <<>>
    /\ served[1].request.endpoint = "POST"
    /\ served[1].env.fault = "Reddit"
    /\ served[1].response.status = 200
    /\ served[1].response.body.stats["Reddit"] = 0
    /\ served[1].response.body.news_articles # <<>>
    /\ served[1].response.body.social_media_posts # <<>>

\* the items of a report that came from source a
ItemsFrom(body, a) == {it \in ReportItems(body) : it.source = a}

\* two requests served that differ in their location at most
SameButLocation(x, y) ==
    /\ x.request.keywords = y.request.keywords
    /\ x.request.days_back = y.request.days_back
    /\ x.request.limit_per_source = y.request.limit_per_source
    /\ x.env = y.env

HasNull(x) ==
    x.request.days_back = NoneInt \/ x.request.limit_per_source = NoneInt

\* the adapter whose search is not touched by the nulls of the request:
\* RSS, which is given the limit only, when the limit is a number
Untouched(a, x) == a = "RSS" /\ x.request.limit_per_source # NoneInt

\* C40: a POST /api/search whose days_back or limit_per_source is null is
\* answered 200 with a report that has stats for all five sources; every
\* adapter that meets the null counts 0 and gives no item, and an adapter
\* that does not meet it gives its items as ever.
C40_NullFieldsAnswered ==
    \A i \in DOMAIN served :
        LET x == served[i]
            body == x.response.body
        IN HasNull(x) =>
             /\ x.response.status = 200
             /\ DOMAIN body.stats = Adapters
             /\ \A a \in Adapters :
                  IF Untouched(a, x)
                  THEN LET own == SearchOf(a, ScrapeArgs(x.request), x.env, world)
                       IN /\ body.stats[a] = Len(own)
                          /\ ItemsFrom(body, a) = ItemSet(own)
                  ELSE /\ body.stats[a] = 0
                       /\ ItemsFrom(body, a) = {}

\* a search with days_back null and a limit, answered 200 with the article
\* of the RSS adapter and nothing of the others
C40_Witness ==
    /\ served # <<>>
    /\ served[1].request.days_back = NoneInt
    /\ served[1].request.limit_per_source = MaxLimit
    /\ served[1].env.instance
    /\ served[1].response.status = 200
    /\ served[1].response.body.stats["RSS"] = 1
    /\ Len(served[1].response.body.news_articles) = 1
    /\ served[1].response.body.social_media_posts = <<>>
    /\ <<"Telegram", "primary", 0, None>> \in world

(***************************************************************************)
(* Claims about the making of an item (SpecItem).                          *)
(***************************************************************************)
\* C24: every social media post, of any adapter and any cascade step, has
\* its content cut to the bounded length of 1000 characters.
C24_ContentBounded ==
    post.made /\ post.source # "rss" => Len(post.content) <= ContentCap

\* C31: every article of the RSS adapter has a content of about 5000
\* characters at most (5000 and the three dots that mark the cut), whether
\* the content is the fetched page or, for an entry without a link, the
\* summary of the entry.
C31_ArticleContentBounded ==
    post.made /\ post.source = "rss" => Len(post.content) <= ArticleCap + 3


(***************************************************************************)
(* Claims about the tasks of concurrent queries (SpecShared).              *)
(***************************************************************************)
\* C26: no state is shared between adapter tasks: while queries are served,
\* also two at the same time, no location is written by two tasks.
C26_NoLocationWrittenByTwoTasks ==
    \A l \in WriteTargets : Cardinality(written[l]) <= 1

=============================================================================
